---- MODULE Spec2Model ----
(***************************************************************************)
(* Model of the streamed DNS fuzzing runner (src/xx_update.py): pattern    *)
(* expansion, batching, massdns rounds, result extraction and the alive    *)
(* ledger.  Text is modelled as a sequence of atoms: an atom is either a   *)
(* placeholder token, a whitespace character, a dot, or an opaque run of   *)
(* other characters.                                                       *)
(***************************************************************************)
EXTENDS Integers, Sequences, FiniteSets, TLC

\* ------------------------------------------------------------------ bounds
MaxBatchSize == 2
MaxCap == 2
MaxPatterns == 2
MaxRuns == 2

\* ------------------------------------------------------------ text helpers
Whitespace == {" ", "\n", "\t"}
Dot == {"."}

ToSet(s) == {s[i] : i \in DOMAIN s}

RECURSIVE rstrip(_, _)
rstrip(s, chars) ==
  IF s # <<>> /\ s[Len(s)] \in chars
    THEN rstrip(SubSeq(s, 1, Len(s) - 1), chars)
    ELSE s

RECURSIVE lstrip(_, _)
lstrip(s, chars) ==
  IF s # <<>> /\ Head(s) \in chars THEN lstrip(Tail(s), chars) ELSE s

strip(s) == lstrip(rstrip(s, Whitespace), Whitespace)

\* index of the first whitespace atom of s, Len(s) + 1 when there is none
RECURSIVE FirstSpace(_, _)
FirstSpace(s, i) ==
  IF i > Len(s) \/ s[i] \in Whitespace THEN i ELSE FirstSpace(s, i + 1)

\* str.split(): the maximal runs of non-whitespace atoms, in order
RECURSIVE split(_)
split(line) ==
  LET s == lstrip(line, Whitespace)
      n == FirstSpace(s, 1)
  IN IF s = <<>> THEN <<>>
     ELSE <<SubSeq(s, 1, n - 1)>> \o split(SubSeq(s, n, Len(s)))

UpperAtom(a) ==
  CASE a = "a" -> "A"
    [] a = "cname" -> "CNAME"
    [] a = "api" -> "API"
    [] a = "dev" -> "DEV"
    [] a = "www" -> "WWW"
    [] a = "example.com" -> "EXAMPLE.COM"
    [] a = "us" -> "US"
    [] a = "eu" -> "EU"
    [] OTHER -> a

\* upper() left out: the text as it is
upper_Identity(s) == s

upper(s) == [i \in DOMAIN s |-> UpperAtom(s[i])]

\* str.replace(tok, val): every occurrence of the token atom becomes val
RECURSIVE replace(_, _, _)
replace(s, tok, val) ==
  IF s = <<>> THEN <<>>
  ELSE (IF Head(s) = tok THEN val ELSE <<Head(s)>>) \o replace(Tail(s), tok, val)

\* tok in s
Contains(s, tok) == \E i \in DOMAIN s : s[i] = tok

\* list(dict.fromkeys(xs)): first occurrences, in order
RECURSIVE Unique(_)
Unique(xs) ==
  IF xs = <<>> THEN <<>>
  ELSE LET front == Unique(SubSeq(xs, 1, Len(xs) - 1))
           last == xs[Len(xs)]
       IN IF last \in ToSet(front) THEN front ELSE Append(front, last)

\* a text file holding the given lines, each ended by a newline, and closed
\* by one blank line
FileText(lines) ==
  [i \in 1..Len(lines) + 1 |->
     IF i <= Len(lines) THEN lines[i] \o <<"\n">> ELSE <<"\n">>]

\* [line.strip() for line in f if line.strip()]
RECURSIVE read_small_list(_)
read_small_list(f) ==
  IF f = <<>> THEN <<>>
  ELSE (IF strip(Head(f)) # <<>> THEN <<strip(Head(f))>> ELSE <<>>)
       \o read_small_list(Tail(f))

\* ------------------------------------------------------------------ inputs
FuzzAll == "{fuzz_all}"
Fuzz == "{fuzz}"
FuzzNumber == "{fuzz_number}"
Number == "{number}"
Region == "{region}"

PatLiteral == <<"example.com">>
PatMain == <<FuzzAll, ".", "example.com">>
PatMainNumber == <<Fuzz, "-", Number, ".", "example.com">>
Patterns == {PatLiteral, PatMain, PatMainNumber}

PatternLists ==
  UNION {[1..n -> Patterns] : n \in 1..MaxPatterns}

MainLists == {<<>>, <<<<"api">>, <<"dev">>, <<"www">>>>}
NumberLists == {<<>>, <<<<"1">>, <<"2">>>>}
RegionLists == {<<<<"us">>, <<"eu">>>>}

Host(label) == <<label, ".", "example.com">>
ApiName == Host("api")
DevName == Host("dev")
WwwName == Host("www")
Api1Name == <<"api", "-", "1", ".", "example.com">>

\* what the resolvers answer: the names holding an A record, and the names
\* on which the massdns process exits with a failure
Zones == {{ApiName, WwwName}, {WwwName, Api1Name}}
CNameOnly == {DevName}
MultiHomed == {WwwName}
DnsChoices ==
  {[installed |-> TRUE, zone |-> z, crash |-> {}] : z \in Zones}
  \cup {[installed |-> TRUE, zone |-> {ApiName, WwwName}, crash |-> {DevName}],
        [installed |-> FALSE, zone |-> {}, crash |-> {}]}

\* ------------------------------------------------------------------- state
VARIABLES
  args,                  \* parameters of process_patterns_stream
  files,                 \* contents of the patterns file and the wordlists
  dns,                   \* the resolver environment of the current run
  alive_file,            \* ALIVE_FILE, the durable log, as its lines
  pc,                    \* position of the driver
  run,                   \* number of the current run of the script
  number_words, region_words, patterns,
  seen_alive,
  pi,                    \* index of the current pattern in patterns
  gen,                   \* position of the pattern's generator
  batch, processed_for_pattern, batch_count,
  drawn,                 \* history: candidates drawn for the current pattern
  dispatched,            \* history: batches handed to a round, this pattern
  positives,             \* history: names answered with an A record, this run
  any_failed,            \* history: some massdns call of this run failed
  prev,                  \* history: log and resolver environment before this run
  rounds,                \* history: the rounds of this run, over all patterns
  peer_pc, peer_seen,    \* a second instance of the script on the same log
  parse_input,           \* the records of a result file given to the extractor
  parse_result,          \* what the extractor returned for them
  addlast,               \* a process of addlast.py
  io                     \* the round in progress and its files in OUTPUT_DIR

vars ==
  <<args, files, dns, alive_file, pc, run, number_words, region_words,
    patterns, seen_alive, pi, gen, batch, processed_for_pattern, batch_count,
    drawn, dispatched, positives, any_failed, prev, rounds, peer_pc,
    peer_seen, parse_input, parse_result, addlast, io>>

driver_vars ==
  <<pc, run, number_words, region_words, patterns, seen_alive, pi, gen,
    batch, processed_for_pattern, batch_count, drawn, dispatched, positives,
    any_failed, prev, rounds>>

\* ---------------------------------------------------------------- expander
\* pattern_needs_main that looks for "{fuzz_all}" alone
pattern_needs_main_FuzzAllOnly(pattern) == Contains(pattern, FuzzAll)

pattern_needs_main(pattern) ==
  \E x \in {FuzzAll, Fuzz, FuzzNumber} : Contains(pattern, x)

\* main_placeholders that stops at the first placeholder it finds
main_placeholders_FirstOnly(pattern) ==
  IF Contains(pattern, FuzzAll) THEN <<FuzzAll>>
  ELSE IF Contains(pattern, Fuzz) THEN <<Fuzz>>
  ELSE IF Contains(pattern, FuzzNumber) THEN <<FuzzNumber>>
  ELSE <<>>

\* main_placeholders, in the order the code appends them
main_placeholders(pattern) ==
  (IF Contains(pattern, FuzzAll) THEN <<FuzzAll>> ELSE <<>>)
  \o (IF Contains(pattern, Fuzz) THEN <<Fuzz>> ELSE <<>>)
  \o (IF Contains(pattern, FuzzNumber) THEN <<FuzzNumber>> ELSE <<>>)

\* for ph in main_placeholders: base = base.replace(ph, main_word)
RECURSIVE ReplaceAll(_, _, _)
ReplaceAll(base, phs, main_word) ==
  IF phs = <<>> THEN base
  ELSE ReplaceAll(replace(base, Head(phs), main_word), Tail(phs), main_word)

MainBase(pattern, main_word) ==
  ReplaceAll(pattern, main_placeholders(pattern), main_word)

\* ForEach walking the list from its end
RECURSIVE ForEach_Reversed(_, _, _)
ForEach_Reversed(base, tok, words) ==
  IF words = <<>> THEN <<>>
  ELSE ForEach_Reversed(base, tok, Tail(words))
       \o <<replace(base, tok, Head(words))>>

\* for w in words: yield base.replace(tok, w)
RECURSIVE ForEach(_, _, _)
ForEach(base, tok, words) ==
  IF words = <<>> THEN <<>>
  ELSE <<replace(base, tok, Head(words))>> \o ForEach(base, tok, Tail(words))

\* ForNumberRegion with the two loops exchanged: the region list outside
RECURSIVE ForNumberRegion_RegionOuter(_, _, _)
ForNumberRegion_RegionOuter(base, nws, rws) ==
  IF rws = <<>> THEN <<>>
  ELSE ForEach(replace(base, Region, Head(rws)), Number, nws)
       \o ForNumberRegion_RegionOuter(base, nws, Tail(rws))

\* for n in number_words: for r in region_words:
\*     yield base.replace("{number}", n).replace("{region}", r)
RECURSIVE ForNumberRegion(_, _, _)
ForNumberRegion(base, nws, rws) ==
  IF nws = <<>> THEN <<>>
  ELSE ForEach(replace(base, Number, Head(nws)), Region, rws)
       \o ForNumberRegion(base, Tail(nws), rws)

\* InnerYields failing open: an empty list leaves the base string as the
\* one candidate
InnerYields_FailOpen(pattern, base, nws, rws, otherwise) ==
  LET needs_number == Contains(pattern, Number)
      needs_region == Contains(pattern, Region)
      ys == IF needs_number /\ needs_region
              THEN ForNumberRegion(base, nws, rws)
            ELSE IF needs_number THEN ForEach(base, Number, nws)
            ELSE IF needs_region THEN ForEach(base, Region, rws)
            ELSE otherwise
  IN IF (needs_number \/ needs_region) /\ ys = <<>> THEN <<base>> ELSE ys

\* the yields of the number/region branches for one base string; otherwise
\* is what the final else branch yields
InnerYields(pattern, base, nws, rws, otherwise) ==
  LET needs_number == Contains(pattern, Number)
      needs_region == Contains(pattern, Region)
  IN IF needs_number /\ needs_region THEN ForNumberRegion(base, nws, rws)
     ELSE IF needs_number THEN ForEach(base, Number, nws)
     ELSE IF needs_region THEN ForEach(base, Region, rws)
     ELSE otherwise

\* a generator that has not run yet: pos lines of the main wordlist read,
\* word the current main word (none yet), k yields made for it, opens the
\* number of times the main wordlist was opened
NewGen == [pos |-> 0, word |-> <<>>, k |-> 0, opens |-> 0]

\* next(gen): the generator after the step and what it yields (out is <<>>
\* when the generator is exhausted)
RECURSIVE GenNext(_, _, _, _, _, _)
GenNext(pattern, has_main, main_file, nws, rws, g) ==
  IF ~pattern_needs_main(pattern)
    THEN LET ys == InnerYields(pattern, pattern, nws, rws, <<>>)
         IN IF g.k < Len(ys)
              THEN [gen |-> [g EXCEPT !.k = @ + 1], out |-> <<ys[g.k + 1]>>]
              ELSE [gen |-> g, out |-> <<>>]
  ELSE IF ~has_main
    THEN [gen |-> g, out |-> <<>>]
  ELSE
    LET o == [g EXCEPT !.opens = IF @ = 0 THEN 1 ELSE @]
        ys == IF o.word = <<>> THEN <<>>
              ELSE LET base == MainBase(pattern, o.word[1])
                   IN InnerYields(pattern, base, nws, rws, <<base>>)
    IN IF o.k < Len(ys)
         THEN [gen |-> [o EXCEPT !.k = @ + 1], out |-> <<ys[o.k + 1]>>]
       ELSE IF o.pos < Len(main_file)
         THEN LET w == strip(main_file[o.pos + 1])
              IN GenNext(pattern, has_main, main_file, nws, rws,
                         [o EXCEPT !.pos = @ + 1,
                                   !.word = IF w # <<>> THEN <<w>> ELSE <<>>,
                                   !.k = 0])
       ELSE [gen |-> [o EXCEPT !.word = <<>>, !.k = 0], out |-> <<>>]

\* everything the generator yields, from position g on
RECURSIVE GenAll(_, _, _, _, _, _)
GenAll(pattern, has_main, main_file, nws, rws, g) ==
  LET r == GenNext(pattern, has_main, main_file, nws, rws, g)
  IN IF r.out = <<>> THEN <<>>
     ELSE r.out \o GenAll(pattern, has_main, main_file, nws, rws, r.gen)

\* ------------------------------------------------- expander of addlast.py
MAX_EXPAND == 10000000

\* the tokens of WORDLISTS, in the order of the dict
WordlistTokens == <<FuzzNumber, FuzzAll, Region>>

\* lines 170-177: the (token, list) pairs of the tokens that occur in the
\* line, given the loaded list of each token of WORDLISTS
RECURSIVE TokenLists(_, _, _)
TokenLists(line, tokens, loaded) ==
  IF tokens = <<>> THEN <<>>
  ELSE (IF Contains(line, Head(tokens))
          THEN <<<<Head(tokens), Head(loaded)>>>> ELSE <<>>)
       \o TokenLists(line, Tail(tokens), Tail(loaded))

\* itertools.product(*lists): the first list varies slowest
RECURSIVE Product(_)
Product(lists) ==
  IF lists = <<>> THEN <<<<>>>>
  ELSE LET rest == Product(Tail(lists))
           first == Head(lists)
       IN [i \in 1..(Len(first) * Len(rest)) |->
             <<first[((i - 1) \div Len(rest)) + 1]>>
             \o rest[((i - 1) % Len(rest)) + 1]]

\* for tok, repl in zip(tokens, combo): s = s.replace(tok, repl)
RECURSIVE SubstituteCombo(_, _, _)
SubstituteCombo(s, tokens, combo) ==
  IF tokens = <<>> THEN s
  ELSE SubstituteCombo(replace(s, Head(tokens), Head(combo)), Tail(tokens),
                       Tail(combo))

RECURSIVE ProductOfLengths(_)
ProductOfLengths(lists) ==
  IF lists = <<>> THEN 1
  ELSE Len(Head(lists)) * ProductOfLengths(Tail(lists))

\* [tok for tok in token_lists.keys() if tok in pattern], with their lists
RECURSIVE PresentTokens(_, _)
PresentTokens(pattern, token_lists) ==
  IF token_lists = <<>> THEN <<>>
  ELSE (IF Contains(pattern, Head(token_lists)[1])
          THEN <<Head(token_lists)>> ELSE <<>>)
       \o PresentTokens(pattern, Tail(token_lists))

\* expand_pattern: what it yields, and whether it raised RuntimeError
expand_pattern(pattern, token_lists) ==
  LET present == PresentTokens(pattern, token_lists)
      tokens == [i \in DOMAIN present |-> present[i][1]]
      lists == [i \in DOMAIN present |-> present[i][2]]
      combos == Product(lists)
  IN IF tokens = <<>> THEN [out |-> <<pattern>>, raised |-> FALSE]
     ELSE IF \E i \in DOMAIN lists : Len(lists[i]) = 0
       THEN [out |-> <<>>, raised |-> FALSE]
     ELSE IF ProductOfLengths(lists) > MAX_EXPAND
       THEN [out |-> <<>>, raised |-> TRUE]
     ELSE [out |-> [i \in DOMAIN combos |->
                      SubstituteCombo(pattern, tokens, combos[i])],
           raised |-> FALSE]

\* patterns of a fuzz file of addlast.py
AddlastPatterns ==
  {<<FuzzAll, ".", "example.com">>,
   <<FuzzNumber, ".", Region, ".", "example.com">>,
   <<FuzzAll, "-", FuzzNumber, ".", "example.com">>}

\* ---------------------------------------------------------------- resolver
\* one line of massdns simple output (-o S): <name>. <TYPE> <data>
MassDnsLine(name, kind, data) ==
  name \o <<".", " ", kind, " ">> \o data \o <<"\n">>

\* the records massdns writes for one target under resolver environment d
Answers(name, d) ==
  IF name \in d.zone
    THEN <<MassDnsLine(name, "A", <<"1.2.3.4">>)>>
         \o (IF name \in MultiHomed
               THEN <<MassDnsLine(name, "A", <<"5.6.7.8">>)>> ELSE <<>>)
  ELSE IF name \in CNameOnly
    THEN <<MassDnsLine(name, "CNAME", WwwName \o <<".">>)>>
  ELSE <<>>

RECURSIVE MassDnsOutput(_, _)
MassDnsOutput(targets, d) ==
  IF targets = <<>> THEN <<>>
  ELSE Answers(Head(targets), d) \o MassDnsOutput(Tail(targets), d)

\* the targets massdns works through before it exits
RECURSIVE BeforeCrash(_, _)
BeforeCrash(targets, d) ==
  IF targets = <<>> \/ Head(targets) \in d.crash THEN <<>>
  ELSE <<Head(targets)>> \o BeforeCrash(Tail(targets), d)

\* run_massdns_on_targets: ok is its return value, results the lines left in
\* tmp_results_path (none when massdns never ran)
run_massdns_on_targets(targets_list, d) ==
  IF targets_list = <<>> THEN [ok |-> TRUE, results |-> <<>>]
  ELSE IF ~d.installed THEN [ok |-> FALSE, results |-> <<>>]
  ELSE IF \E i \in DOMAIN targets_list : targets_list[i] \in d.crash
    THEN [ok |-> FALSE,
          results |-> MassDnsOutput(BeforeCrash(targets_list, d), d)]
  ELSE [ok |-> TRUE, results |-> MassDnsOutput(targets_list, d)]

\* the md_targets_ files of one call of run_massdns_on_targets: how many it
\* created (line 118) and how many of them are left when it returns (lines
\* 139, 146, 153)
targets_files(targets_list, d) ==
  IF targets_list = <<>> THEN [created |-> 0, left |-> 0]
  ELSE [created |-> 1, left |-> 0]

\* --------------------------------------------------------------- extractor
\* AliveNames without the rstrip("."): the names keep their trailing dot
RECURSIVE AliveNames_KeepDot(_)
AliveNames_KeepDot(lines) ==
  IF lines = <<>> THEN <<>>
  ELSE LET parts == split(Head(lines))
       IN (IF Len(parts) >= 3 /\ upper(parts[2]) = <<"A">>
             THEN <<parts[1]>> ELSE <<>>)
          \o AliveNames_KeepDot(Tail(lines))

\* the names appended to alive while reading the result lines
RECURSIVE AliveNames(_)
AliveNames(lines) ==
  IF lines = <<>> THEN <<>>
  ELSE LET parts == split(Head(lines))
       IN (IF Len(parts) >= 3 /\ upper(parts[2]) = <<"A">>
             THEN <<rstrip(parts[1], Dot)>> ELSE <<>>)
          \o AliveNames(Tail(lines))

parse_massdns_results_for_alive(results) == Unique(AliveNames(results))

\* ------------------------------------------------------------------ ledger
\* LoadSeen without the strip(): the lines are kept with their newline
LoadSeen_Raw(f) == ToSet(f)

\* the seen set as loaded from the lines of ALIVE_FILE
LoadSeen(f) == {strip(f[i]) : i \in DOMAIN f}

\* append_alive without its membership test: every name is written
RECURSIVE append_alive_Unchecked(_, _, _)
append_alive_Unchecked(alive_list, seen, f) ==
  IF alive_list = <<>> THEN [file |-> f, seen |-> seen]
  ELSE append_alive_Unchecked(Tail(alive_list), seen \cup {Head(alive_list)},
                              Append(f, Head(alive_list) \o <<"\n">>))

\* append_alive without the seen_alive.add: the name is written and not
\* remembered
RECURSIVE append_alive_Forgetful(_, _, _)
append_alive_Forgetful(alive_list, seen, f) ==
  IF alive_list = <<>> THEN [file |-> f, seen |-> seen]
  ELSE LET d == Head(alive_list)
       IN IF d \notin seen
            THEN append_alive_Forgetful(Tail(alive_list), seen,
                                        Append(f, d \o <<"\n">>))
            ELSE append_alive_Forgetful(Tail(alive_list), seen, f)

\* append_alive: the file and the seen set after the call
RECURSIVE append_alive(_, _, _)
append_alive(alive_list, seen, f) ==
  IF alive_list = <<>> THEN [file |-> f, seen |-> seen]
  ELSE LET d == Head(alive_list)
       IN IF d \notin seen
            THEN append_alive(Tail(alive_list), seen \cup {d},
                              Append(f, d \o <<"\n">>))
            ELSE append_alive(Tail(alive_list), seen, f)

\* RoundLedger that does not look at run_dns: massdns is run in a dry run
RoundLedger_NoDryRun(targets, seen, f, d, run_dns) ==
  LET r == run_massdns_on_targets(targets, d)
  IN IF r.ok
       THEN append_alive(parse_massdns_results_for_alive(r.results), seen, f)
       ELSE [file |-> f, seen |-> seen]

\* one resolver round on targets with a private seen set over the shared
\* file: run massdns, extract, append
RoundLedger(targets, seen, f, d, run_dns) ==
  IF ~run_dns THEN [file |-> f, seen |-> seen]
  ELSE LET r == run_massdns_on_targets(targets, d)
       IN IF r.ok
            THEN append_alive(parse_massdns_results_for_alive(r.results),
                              seen, f)
            ELSE [file |-> f, seen |-> seen]

\* ------------------------------------------------------------------ driver
\* a process of addlast.py that has not started, on an empty RESULT_FILE
AddlastIdle ==
  [pc |-> "idle", lineno |-> 0, result_file |-> <<>>, tmp_created |-> 0,
   tmp_left |-> 0, lines |-> <<>>]

\* no round in progress: no massdns process running, no tmp_results and no
\* md_targets_ file in OUTPUT_DIR
NoRound ==
  [outstanding |-> 0, results |-> {}, targets |-> 0, ok |-> FALSE,
   alive |-> <<>>, after |-> "none", raised |-> FALSE]

\* a process of the script that has not started, on an empty log
FreshProcess ==
  /\ alive_file = <<>>
  /\ run = 1
  /\ number_words = <<>>
  /\ region_words = <<>>
  /\ patterns = <<>>
  /\ seen_alive = {}
  /\ pi = 0
  /\ gen = NewGen
  /\ batch = <<>>
  /\ processed_for_pattern = 0
  /\ batch_count = 0
  /\ drawn = <<>>
  /\ dispatched = <<>>
  /\ positives = {}
  /\ any_failed = FALSE
  /\ prev = [log |-> <<>>, dns |-> dns]
  /\ rounds = <<>>
  /\ peer_pc = "off"
  /\ peer_seen = {}
  /\ parse_input = <<>>
  /\ parse_result = <<>>
  /\ addlast = AddlastIdle
  /\ io = NoRound

Init ==
  /\ args \in [batch_size : 1..MaxBatchSize,
               max_per_pattern : 0..MaxCap,
               main_wordlist : BOOLEAN,
               skip_missing_main : BOOLEAN,
               run_dns : BOOLEAN]
  /\ args.main_wordlist => ~args.skip_missing_main
  /\ \E ps \in PatternLists, ms \in MainLists, ns \in NumberLists,
        rs \in RegionLists :
       /\ ~args.main_wordlist => ms = <<>>
       /\ files = [patterns |-> FileText(ps), main |-> FileText(ms),
                   number |-> FileText(ns), region |-> FileText(rs)]
  /\ dns \in DnsChoices
     \* a dry run never calls massdns: one environment stands for all
  /\ ~args.run_dns => ~dns.installed
  /\ pc = "idle"
  /\ FreshProcess

config_vars == <<args, files, dns>>
peer_vars == <<peer_pc, peer_seen>>
parse_vars == <<parse_input, parse_result>>

\* lines 198-208: the small lists, the seen set and the patterns are loaded
Start ==
  /\ pc = "idle"
  /\ number_words' = read_small_list(files.number)
  /\ region_words' = read_small_list(files.region)
  /\ seen_alive' = LoadSeen(alive_file)
  /\ patterns' = read_small_list(files.patterns)
  /\ pi' = 1
  /\ pc' = IF read_small_list(files.patterns) = <<>> THEN "done" ELSE "checking"
  /\ UNCHANGED <<config_vars, alive_file, run, gen, batch,
                 processed_for_pattern, batch_count, drawn, dispatched,
                 positives, any_failed, prev, peer_vars,
                 parse_vars, addlast, io, rounds>>

\* NextPattern that does not move on: the same pattern is taken up again
NextPattern_Again ==
  /\ pi' = pi
  /\ pc' = "checking"

\* the for loop over patterns moves on, or ends
NextPattern ==
  /\ pi' = pi + 1
  /\ pc' = IF pi < Len(patterns) THEN "checking" ELSE "done"

MissingMain == pattern_needs_main(patterns[pi]) /\ ~args.main_wordlist

\* CheckSkip with a break in place of the continue: the loop over the
\* patterns ends at the first pattern that is skipped
CheckSkip_Break ==
  /\ pc = "checking"
  /\ MissingMain /\ args.skip_missing_main
  /\ pc' = "done"
  /\ UNCHANGED <<config_vars, alive_file, run, number_words, region_words,
                 patterns, seen_alive, pi, gen, batch, processed_for_pattern,
                 batch_count, drawn, dispatched, positives, any_failed, prev,
                 peer_vars, parse_vars, addlast, io, rounds>>

\* lines 213-217: the pattern needs the main wordlist, none is there, skip
CheckSkip ==
  /\ pc = "checking"
  /\ MissingMain /\ args.skip_missing_main
  /\ NextPattern
  /\ UNCHANGED <<config_vars, alive_file, run, number_words, region_words,
                 patterns, seen_alive, gen, batch, processed_for_pattern,
                 batch_count, drawn, dispatched, positives, any_failed, prev,
                 peer_vars,
                 parse_vars, addlast, io, rounds>>

\* lines 213-221: the pattern needs the main wordlist, none is there, exit
CheckAbort ==
  /\ pc = "checking"
  /\ MissingMain /\ ~args.skip_missing_main
  /\ pc' = "aborted"
  /\ UNCHANGED <<config_vars, alive_file, run, number_words, region_words,
                 patterns, seen_alive, pi, gen, batch, processed_for_pattern,
                 batch_count, drawn, dispatched, positives, any_failed, prev,
                 peer_vars,
                 parse_vars, addlast, io, rounds>>

\* CheckOk without the resets of lines 225-227: batch, processed_for_pattern
\* and batch_count are carried over from the pattern before
CheckOk_CarryOver ==
  /\ pc = "checking"
  /\ ~MissingMain
  /\ gen' = NewGen
  /\ drawn' = <<>>
  /\ dispatched' = <<>>
  /\ pc' = "generating"
  /\ UNCHANGED <<config_vars, alive_file, run, number_words, region_words,
                 patterns, seen_alive, pi, batch, processed_for_pattern,
                 batch_count, positives, any_failed, prev, peer_vars,
                 parse_vars, addlast, io, rounds>>

\* lines 223-227: a fresh generator and an empty batch for the pattern
CheckOk ==
  /\ pc = "checking"
  /\ ~MissingMain
  /\ gen' = NewGen
  /\ batch' = <<>>
  /\ processed_for_pattern' = 0
  /\ batch_count' = 0
  /\ drawn' = <<>>
  /\ dispatched' = <<>>
  /\ pc' = "generating"
  /\ UNCHANGED <<config_vars, alive_file, run, number_words, region_words,
                 patterns, seen_alive, pi, positives, any_failed, prev,
                 peer_vars,
                 parse_vars, addlast, io, rounds>>

Next_gen ==
  GenNext(patterns[pi], args.main_wordlist, files.main, number_words,
          region_words, gen)

\* Draw with the cap tested by > in place of >=
Draw_CapLate ==
  /\ pc = "generating"
  /\ Next_gen.out # <<>>
  /\ gen' = Next_gen.gen
  /\ batch' = Append(batch, Next_gen.out[1])
  /\ drawn' = Append(drawn, Next_gen.out[1])
  /\ processed_for_pattern' = processed_for_pattern + 1
  /\ pc' = IF args.max_per_pattern # 0
              /\ processed_for_pattern + 1 > args.max_per_pattern
             THEN "flush_cap"
           ELSE IF Len(batch) + 1 >= args.batch_size THEN "flush_full"
           ELSE "generating"
  /\ UNCHANGED <<config_vars, alive_file, run, number_words, region_words,
                 patterns, seen_alive, pi, batch_count, dispatched, positives,
                 any_failed, prev, peer_vars, parse_vars, addlast, io, rounds>>

\* lines 228-232 and 251: one candidate is drawn and put into the batch
Draw ==
  /\ pc = "generating"
  /\ Next_gen.out # <<>>
  /\ gen' = Next_gen.gen
  /\ batch' = Append(batch, Next_gen.out[1])
  /\ drawn' = Append(drawn, Next_gen.out[1])
  /\ processed_for_pattern' = processed_for_pattern + 1
  /\ pc' = IF args.max_per_pattern # 0
              /\ processed_for_pattern + 1 >= args.max_per_pattern
             THEN "flush_cap"
           ELSE IF Len(batch) + 1 >= args.batch_size THEN "flush_full"
           ELSE "generating"
  /\ UNCHANGED <<config_vars, alive_file, run, number_words, region_words,
                 patterns, seen_alive, pi, batch_count, dispatched, positives,
                 any_failed, prev, peer_vars,
                 parse_vars, addlast, io, rounds>>

\* line 228: the generator is exhausted, the for loop ends
Exhausted ==
  /\ pc = "generating"
  /\ Next_gen.out = <<>>
  /\ gen' = Next_gen.gen
  /\ pc' = "draining"
  /\ UNCHANGED <<config_vars, alive_file, run, number_words, region_words,
                 patterns, seen_alive, pi, batch, processed_for_pattern,
                 batch_count, drawn, dispatched, positives, any_failed, prev,
                 peer_vars,
                 parse_vars, addlast, io, rounds>>

\* a round on the current batch: batch_count += 1, massdns, extraction,
\* append, removal of tmp_results
Round ==
  LET r == RoundLedger(batch, seen_alive, alive_file, dns, args.run_dns)
      ok == run_massdns_on_targets(batch, dns).ok
  IN /\ batch_count' = batch_count + 1
     /\ dispatched' = Append(dispatched, batch)
     /\ rounds' = Append(rounds,
                         [pattern |-> pi, targets |-> batch,
                          massdns |-> args.run_dns,
                          ok |-> args.run_dns /\ ok,
                          tmp |-> IF args.run_dns
                                    THEN targets_files(batch, dns)
                                    ELSE [created |-> 0, left |-> 0]])
     /\ alive_file' = r.file
     /\ seen_alive' = r.seen
     /\ positives' = IF args.run_dns /\ ok
                       THEN positives \cup (ToSet(batch) \cap dns.zone)
                       ELSE positives
     /\ any_failed' = (any_failed \/ (args.run_dns /\ ~ok))

\* lines 232-249: the cap is reached, the batch is flushed, the loop breaks
FlushCap ==
  /\ pc = "flush_cap"
  /\ IF batch # <<>> THEN Round
     ELSE UNCHANGED <<batch_count, dispatched, alive_file, seen_alive,
                      positives, any_failed, rounds>>
  /\ pc' = "draining"
  /\ UNCHANGED <<config_vars, run, number_words, region_words, patterns, pi,
                 gen, batch, processed_for_pattern, drawn, prev, peer_vars,
                 parse_vars, addlast, io>>

\* FlushFull without the batch = [] of line 265
FlushFull_KeepBatch ==
  /\ pc = "flush_full"
  /\ Round
  /\ pc' = "generating"
  /\ UNCHANGED <<config_vars, run, number_words, region_words, patterns, pi,
                 gen, batch, processed_for_pattern, drawn, prev, peer_vars,
                 parse_vars, addlast, io>>

\* lines 251-265: the batch is full, it is flushed and emptied
FlushFull ==
  /\ pc = "flush_full"
  /\ Round
  /\ batch' = <<>>
  /\ pc' = "generating"
  /\ UNCHANGED <<config_vars, run, number_words, region_words, patterns, pi,
                 gen, processed_for_pattern, drawn, prev, peer_vars,
                 parse_vars, addlast, io>>

\* lines 268-283: what is left in the batch after the loop is flushed
FinalFlush ==
  /\ pc = "draining"
  /\ batch # <<>>
  /\ Round
  /\ NextPattern
  /\ UNCHANGED <<config_vars, run, number_words, region_words, patterns, gen,
                 batch, processed_for_pattern, drawn, prev, peer_vars,
                 parse_vars, addlast, io>>

\* lines 268 and 283: nothing is left in the batch after the loop
FinishPattern ==
  /\ pc = "draining"
  /\ batch = <<>>
  /\ NextPattern
  /\ UNCHANGED <<config_vars, alive_file, run, number_words, region_words,
                 patterns, seen_alive, gen, batch, processed_for_pattern,
                 batch_count, drawn, dispatched, positives, any_failed, prev,
                 peer_vars,
                 parse_vars, addlast, io, rounds>>

\* the script has exited and is started again on the same arguments, files
\* and massdns binary; what the resolvers answer may have changed
Restart ==
  /\ pc \in {"done", "aborted"}
  /\ run < MaxRuns
  /\ run' = run + 1
  /\ prev' = [log |-> alive_file, dns |-> dns]
  /\ dns' \in {d \in DnsChoices : d.installed = dns.installed}
  /\ pc' = "idle"
  /\ number_words' = <<>>
  /\ region_words' = <<>>
  /\ patterns' = <<>>
  /\ seen_alive' = {}
  /\ pi' = 0
  /\ gen' = NewGen
  /\ batch' = <<>>
  /\ processed_for_pattern' = 0
  /\ batch_count' = 0
  /\ drawn' = <<>>
  /\ dispatched' = <<>>
  /\ positives' = {}
  /\ any_failed' = FALSE
  /\ rounds' = <<>>
  /\ UNCHANGED <<args, files, alive_file, peer_vars,
                 parse_vars, addlast, io>>

Next ==
  \/ Start
  \/ CheckSkip
  \/ CheckAbort
  \/ CheckOk
  \/ Draw
  \/ Exhausted
  \/ FlushCap
  \/ FlushFull
  \/ FinalFlush
  \/ FinishPattern
  \/ Restart

Spec == Init /\ [][Next]_vars

\* ------------------------------------------- two instances on one ledger
\* the targets of the batches of the second instance
PeerTargets == {ApiName, DevName, WwwName}

\* lines 201-205 in the second instance: it loads its own seen set
PeerStart ==
  /\ peer_pc = "off"
  /\ peer_seen' = LoadSeen(alive_file)
  /\ peer_pc' = "running"
  /\ UNCHANGED <<config_vars, alive_file, driver_vars, parse_vars, addlast, io>>

\* lines 254-258 in the second instance: one round on a batch of its own
PeerRound ==
  /\ peer_pc = "running"
  /\ \E c \in PeerTargets :
       LET r == RoundLedger(<<c>>, peer_seen, alive_file, dns, TRUE)
       IN /\ alive_file' = r.file
          /\ peer_seen' = r.seen
  /\ UNCHANGED <<config_vars, driver_vars, peer_pc, parse_vars, addlast, io>>

\* the second instance has processed its last pattern
PeerExit ==
  /\ peer_pc = "running"
  /\ peer_pc' = "done"
  /\ UNCHANGED <<config_vars, alive_file, driver_vars, peer_seen, parse_vars, addlast, io>>

InitConc ==
  /\ Init
  /\ args.run_dns
  /\ files.patterns = FileText(<<PatMain>>)
  /\ files.number = FileText(<<>>)

NextConc ==
  \/ Next
  \/ PeerStart
  \/ PeerRound
  \/ PeerExit

SpecConc == InitConc /\ [][NextConc]_vars

\* ------------------------------------------------ the extractor on its own
MaxLines == 3

\* the shapes of a line of a result file: a record of type A or a with one
\* data field, of type A with two, of type CNAME, a name and a type without
\* data, a name alone
LineShapes == {"A", "a", "A2", "CNAME", "NoData", "NameOnly"}

\* the names of the lines, with their trailing dots
LineNames ==
  {[name |-> n, dots |-> k] : n \in {ApiName, WwwName}, k \in {0, 1}}
  \cup {[name |-> ApiName, dots |-> 2]}

ParseCases == [shape : LineShapes, owner : LineNames]

Dots(k) == [i \in 1..k |-> "."]

\* the text of a line
Render(c) ==
  c.owner.name \o Dots(c.owner.dots)
  \o (CASE c.shape = "A" -> <<" ", "A", " ", "1.2.3.4">>
        [] c.shape = "a" -> <<" ", "a", " ", "1.2.3.4">>
        [] c.shape = "A2" -> <<"\t", "A", " ", "1.2.3.4", " ", "5.6.7.8">>
        [] c.shape = "CNAME" -> <<" ", "CNAME", " ">> \o DevName \o <<".">>
        [] c.shape = "NoData" -> <<" ", "A">>
        [] OTHER -> <<>>)
  \o <<"\n">>

RenderAll(cs) == [i \in DOMAIN cs |-> Render(cs[i])]

ParseInputs == UNION {[1..n -> ParseCases] : n \in 0..MaxLines}

InitParse ==
  /\ args = [batch_size |-> 1, max_per_pattern |-> 0, main_wordlist |-> FALSE,
             skip_missing_main |-> FALSE, run_dns |-> TRUE]
  /\ files = [patterns |-> <<>>, main |-> <<>>, number |-> <<>>,
              region |-> <<>>]
  /\ dns = [installed |-> TRUE, zone |-> {}, crash |-> {}]
  /\ alive_file = <<>>
  /\ run = 1
  /\ number_words = <<>>
  /\ region_words = <<>>
  /\ patterns = <<>>
  /\ seen_alive = {}
  /\ pi = 0
  /\ gen = NewGen
  /\ batch = <<>>
  /\ processed_for_pattern = 0
  /\ batch_count = 0
  /\ drawn = <<>>
  /\ dispatched = <<>>
  /\ positives = {}
  /\ any_failed = FALSE
  /\ prev = [log |-> <<>>, dns |-> dns]
  /\ rounds = <<>>
  /\ peer_pc = "off"
  /\ peer_seen = {}
  /\ parse_input \in ParseInputs
  /\ parse_result = <<>>
  /\ addlast = AddlastIdle
  /\ io = NoRound
  /\ pc = "parse"

\* lines 158-171 applied to the result file
Parse ==
  /\ pc = "parse"
  /\ parse_result' = parse_massdns_results_for_alive(RenderAll(parse_input))
  /\ pc' = "parsed"
  /\ UNCHANGED <<config_vars, alive_file, run, number_words, region_words,
                 patterns, seen_alive, pi, gen, batch, processed_for_pattern,
                 batch_count, drawn, dispatched, positives, any_failed, prev,
                 rounds, peer_vars, parse_input, addlast, io>>

NextParse == Parse

SpecParse == InitParse /\ [][NextParse]_vars

\* ------------------------------------------------------------- properties
RECURSIVE Flatten(_)
Flatten(ss) == IF ss = <<>> THEN <<>> ELSE Head(ss) \o Flatten(Tail(ss))

IsPrefix(s, t) == Len(s) <= Len(t) /\ SubSeq(t, 1, Len(s)) = s

Min(a, b) == IF a <= b THEN a ELSE b

CeilDiv(a, b) == (a + b - 1) \div b

\* the driver has left the loops of a pattern it did not skip: patterns[pi-1]
PatternDone ==
  /\ pc \in {"checking", "done"}
  /\ pi > 1
  /\ ~(pattern_needs_main(patterns[pi - 1]) /\ ~args.main_wordlist)

LastPattern == patterns[pi - 1]

\* what the expander yields for a pattern when it is run to its end
Candidates(pattern) ==
  GenAll(pattern, args.main_wordlist, files.main, number_words, region_words,
         NewGen)

RealRun == args.run_dns /\ dns.installed

\* C1: every candidate drawn for a pattern is handed to a resolver round in
\* exactly one batch: the batches dispatched so far, laid end to end, never
\* repeat or skip a drawn candidate, and once the pattern is finished they
\* are exactly the candidates drawn.
C1_ExactlyOneBatch ==
  RealRun =>
    /\ IsPrefix(Flatten(dispatched), drawn)
    /\ PatternDone => Flatten(dispatched) = drawn

\* C2: batch completeness: a finished pattern with C candidates, batch size B
\* and cap K has min(C, K) candidates dispatched (C when K = 0), in
\* ceil(that / B) batches, all full except possibly the last.
C2_BatchCompleteness ==
  (RealRun /\ PatternDone) =>
    LET C == Len(Candidates(LastPattern))
        B == args.batch_size
        K == args.max_per_pattern
        D == IF K > 0 THEN Min(C, K) ELSE C
    IN /\ Len(Flatten(dispatched)) = D
       /\ Len(dispatched) = CeilDiv(D, B)
       /\ \A i \in DOMAIN dispatched :
            /\ Len(dispatched[i]) \in 1..B
            /\ i < Len(dispatched) => Len(dispatched[i]) = B

\* the names on the lines of the durable log
LogNames(f) == [i \in DOMAIN f |-> strip(f[i])]

\* C3: no name is on more than one line of the durable log, whatever the
\* resolvers answered and however often the script was run again.
C3_NoNameTwice ==
  \A i, j \in DOMAIN alive_file :
    LogNames(alive_file)[i] = LogNames(alive_file)[j] => i = j

\* a later run found again a name that an earlier run had logged, and also
\* logged a new one
C3_Witness ==
  /\ run > 1
  /\ pc = "done"
  /\ positives \cap LoadSeen(prev.log) # {}
  /\ Len(alive_file) > Len(prev.log)

\* C4: a run on the same arguments, files and resolver answers as the run
\* before it appends nothing: the log is line for line the log it found.
C4_SecondRunAppendsNothing ==
  (run > 1 /\ pc \in {"done", "aborted"} /\ dns = prev.dns) =>
    alive_file = prev.log

\* the second run had the same answers and found names the first had logged
C4_Witness ==
  /\ run > 1
  /\ pc = "done"
  /\ dns = prev.dns
  /\ positives # {}
  /\ Len(prev.log) >= 2

Recognized == {FuzzAll, Fuzz, FuzzNumber, Number, Region}

NoPlaceholder(pattern) == \A t \in Recognized : ~Contains(pattern, t)

\* the driver is inside the loops of patterns[pi]
InPattern == pc \in {"generating", "flush_cap", "flush_full", "draining"}

\* the for loop over the generator ended because the generator was exhausted
GenExhausted ==
  /\ pc = "draining"
  /\ args.max_per_pattern = 0 \/ processed_for_pattern < args.max_per_pattern

\* C6: a pattern without a recognized placeholder yields itself, once, the
\* main wordlist is not opened for it, and it is dispatched as one batch of
\* one candidate.
C6_LiteralPatternYieldsItself ==
  (PatternDone /\ NoPlaceholder(LastPattern)) =>
    /\ drawn = <<LastPattern>>
    /\ dispatched = <<<<LastPattern>>>>
    /\ gen.opens = 0

\* the pattern joins the main wordlist with exactly one of the small lists
OneSmallList(pattern) ==
  /\ pattern_needs_main(pattern)
  /\ Contains(pattern, Number) # Contains(pattern, Region)

SmallToken(pattern) == IF Contains(pattern, Number) THEN Number ELSE Region

SmallList(pattern) ==
  IF Contains(pattern, Number) THEN number_words ELSE region_words

MainWords == read_small_list(files.main)

\* the number of main words among the lines of the main wordlist read so far
WordsRead == Len(read_small_list(SubSeq(files.main, 1, gen.pos)))

\* C7: a pattern with the streaming token over N words and one in-memory
\* token over M values yields N x M candidates, stream-major: candidate i is
\* built from main word (i-1) div M and list value (i-1) mod M; the stream
\* has moved to its next word only when the values of the word before are
\* used up, and it is opened once and read to its end once.
C7_StreamMajorProduct ==
  (InPattern /\ OneSmallList(patterns[pi]) /\ args.main_wordlist) =>
    LET p == patterns[pi]
        N == Len(MainWords)
        M == Len(SmallList(p))
    IN /\ Len(drawn) <= N * M
       /\ \A i \in DOMAIN drawn :
            drawn[i] = replace(MainBase(p, MainWords[((i - 1) \div M) + 1]),
                               SmallToken(p),
                               SmallList(p)[((i - 1) % M) + 1])
       /\ gen.opens <= 1
       /\ gen.pos <= Len(files.main)
       /\ (~GenExhausted /\ drawn # <<>>) =>
            WordsRead = ((Len(drawn) - 1) \div M) + 1
       /\ GenExhausted =>
            /\ Len(drawn) = N * M
            /\ gen.opens = 1
            /\ gen.pos = Len(files.main)

\* three main words and two numbers gave six candidates
C7_Witness ==
  /\ GenExhausted
  /\ patterns[pi] = PatMainNumber
  /\ Len(MainWords) = 3
  /\ Len(number_words) = 2
  /\ Len(drawn) = 6

\* the pattern uses a small list that is empty
UsesEmptyList(pattern) ==
  \/ Contains(pattern, Number) /\ number_words = <<>>
  \/ Contains(pattern, Region) /\ region_words = <<>>

\* C8: a pattern that uses an in-memory token bound to an empty list yields
\* no candidate, also when it uses the streaming token over a non-empty
\* stream; no batch is dispatched for it and nothing is appended to the log
\* while it is processed.  The expander of addlast.py likewise yields nothing
\* for a line one of whose token lists is empty, and something otherwise.
C8_EmptyListYieldsNothing ==
  /\ [](InPattern /\ UsesEmptyList(patterns[pi]) =>
          drawn = <<>> /\ batch = <<>> /\ dispatched = <<>>)
  /\ [](InPattern =>
          \A line \in AddlastPatterns :
            LET tl == TokenLists(line, WordlistTokens,
                                 <<number_words, MainWords, region_words>>)
                e == expand_pattern(line, tl)
            IN IF \E i \in DOMAIN tl : tl[i][2] = <<>>
                 THEN e.out = <<>> /\ ~e.raised
                 ELSE e.out # <<>>)
  /\ [][(InPattern /\ UsesEmptyList(patterns[pi])) =>
          (alive_file' = alive_file /\ seen_alive' = seen_alive)]_vars

\* the whole stream of three words was read for a pattern whose number list
\* is empty, after an earlier pattern had put names into the log
C8_Witness ==
  /\ pc = "draining"
  /\ patterns[pi] = PatMainNumber
  /\ number_words = <<>>
  /\ Len(MainWords) = 3
  /\ gen.pos = Len(files.main)
  /\ drawn = <<>>
  /\ alive_file # <<>>

\* the names of the records of the given kinds that have at least one data
\* field (three fields or more)
NamesOfKind(cs, shapes) ==
  {cs[i].owner.name : i \in {j \in DOMAIN cs : cs[j].shape \in shapes}}

NoRepeats(xs) == \A i, j \in DOMAIN xs : xs[i] = xs[j] => i = j

C5_AtMostOnceWithTwoInstances ==
  peer_pc # "off" => NoRepeats(LogNames(alive_file))

\* C10: after a run in which every massdns call succeeded, the names in the
\* ledger are the names it held before the run and the dispatched candidates
\* that were answered with an A record, and no others; a further run on the
\* same inputs leaves the same names and adds no line.
C10_LedgerIsPriorPlusPositives ==
  (pc = "done" /\ RealRun /\ ~any_failed) =>
    /\ LoadSeen(alive_file) = LoadSeen(prev.log) \cup positives
    /\ (run > 1 /\ dns = prev.dns) =>
         /\ LoadSeen(alive_file) = LoadSeen(prev.log)
         /\ Len(alive_file) = Len(prev.log)

\* the scenario of the specification: api, dev and www are tried, api and
\* www have an A record; the first run logged exactly these two and the
\* second run, on the same inputs, found them again and left the log alone
C10_Witness ==
  /\ pc = "done"
  /\ run = 2
  /\ ~any_failed
  /\ patterns = <<PatMain>>
  /\ MainWords = <<<<"api">>, <<"dev">>, <<"www">>>>
  /\ dns = [installed |-> TRUE, zone |-> {ApiName, WwwName}, crash |-> {}]
  /\ dns = prev.dns
  /\ positives = {ApiName, WwwName}
  /\ LogNames(prev.log) = <<ApiName, WwwName>>
  /\ alive_file = prev.log

\* ------------------------------------------------------ resolver failures
\* the massdns binary was not found by a round of this run
BinaryMissing == args.run_dns /\ ~dns.installed /\ rounds # <<>>

\* C11: when the massdns binary is absent the first round that finds it so
\* aborts the run: no further batch is dispatched and no further pattern is
\* taken up.  Stated for runs without a cap, where no batch is flushed twice.
C11_MissingBinaryAbortsRun ==
  (BinaryMissing /\ args.max_per_pattern = 0) =>
    /\ Len(rounds) = 1
    /\ pi <= rounds[1].pattern \/ pc = "done"

\* round i of this run ran massdns and massdns exited with a non-zero code
ExitedNonZero(i) == rounds[i].massdns /\ ~rounds[i].ok /\ dns.installed

\* the names a round of this run that succeeded can have put into the log
NamesOfGoodRounds ==
  UNION {ToSet(rounds[i].targets) \cap dns.zone :
           i \in {j \in DOMAIN rounds : rounds[j].ok}}

\* a batch that failed leaves the log and the seen set as they were, also
\* when massdns left records in its output file
FailedBatchLeavesLedger ==
  /\ ToSet(LogNames(alive_file))
       \subseteq LoadSeen(prev.log) \cup NamesOfGoodRounds
  /\ seen_alive \subseteq LoadSeen(prev.log) \cup NamesOfGoodRounds

\* the candidates of a failed batch are in no later batch of the pattern
FailedBatchNotRetried ==
  \A i, j \in DOMAIN rounds :
    (i < j /\ ExitedNonZero(i) /\ rounds[i].pattern = rounds[j].pattern)
      => ToSet(rounds[i].targets) \cap ToSet(rounds[j].targets) = {}

\* the driver goes on after a failed batch: every candidate drawn for a
\* pattern is dispatched, every pattern is taken up, the run ends in done
FailedBatchIsLocal ==
  /\ PatternDone => ToSet(drawn) \subseteq ToSet(Flatten(dispatched))
  /\ pc = "done" => pi = Len(patterns) + 1
  /\ pc = "aborted" => MissingMain

\* C12: a non-zero exit of massdns is local to its batch: the log and the
\* seen set are unchanged by that batch even if massdns left a partial
\* output, the candidates of the batch are not dispatched again, and the
\* driver goes on with the next batch and the following patterns.
C12_NonZeroExitIsBatchLocal ==
  /\ FailedBatchLeavesLedger
  /\ FailedBatchNotRetried
  /\ FailedBatchIsLocal

\* --------------------------------------- runs without a main wordlist
PatRegion == <<Region, ".", "example.com">>

UsName == <<"us", ".", "example.com">>
EuName == <<"eu", ".", "example.com">>

\* patterns files that mix a pattern over the region list with patterns
\* that need the main wordlist and with a literal line
CfgPatterns == {PatRegion, PatMain, PatLiteral}

CfgPatternLists == UNION {[1..n -> CfgPatterns] : n \in 1..MaxPatterns}

\* resolver environments for the region names
CfgDnsChoices ==
  {[installed |-> TRUE, zone |-> {UsName}, crash |-> {}],
   [installed |-> TRUE, zone |-> {UsName}, crash |-> {EuName}],
   [installed |-> FALSE, zone |-> {}, crash |-> {}]}

\* main() found neither a wordlist argument nor DEFAULT_MAIN_WORDLIST
\* (lines 309-322): main_wordlist is None
InitCfg ==
  /\ args \in [batch_size : 1..MaxBatchSize,
               max_per_pattern : 0..MaxCap,
               main_wordlist : {FALSE},
               skip_missing_main : BOOLEAN,
               run_dns : BOOLEAN]
  /\ \E ps \in CfgPatternLists, rs \in RegionLists :
       files = [patterns |-> FileText(ps), main |-> FileText(<<>>),
                number |-> FileText(<<>>), region |-> FileText(rs)]
  /\ dns \in CfgDnsChoices
  /\ ~args.run_dns => ~dns.installed
  /\ pc = "idle"
  /\ FreshProcess

SpecCfg == InitCfg /\ [][Next]_vars

\* C13: a run that ends in the abort for a missing main wordlist has done no
\* resolution work: no batch of any pattern was dispatched, also not of the
\* patterns listed before the offending one, and the log is as it was found.
C13_AbortBeforeAnyResolution ==
  pc = "aborted" =>
    /\ \A i \in DOMAIN rounds : ~rounds[i].massdns
    /\ alive_file = prev.log

\* ----------------------------------------------------- the driver's abort
\* the pattern holds a placeholder that is filled from the main wordlist
NeedsStream(pattern) ==
  Contains(pattern, FuzzAll) \/ Contains(pattern, Fuzz)
  \/ Contains(pattern, FuzzNumber)

\* C14: the driver becomes aborted only from checking a pattern that needs
\* the main wordlist while none is configured and the policy is to abort;
\* it goes from checking to generating only if the main wordlist is there or
\* the pattern does not need it; once aborted it draws no candidate,
\* dispatches no batch and leaves the log alone: all that follows is a new
\* start of the script.
C14_AbortOnlyFromChecking ==
  [][/\ (pc # "aborted" /\ pc' = "aborted") =>
          /\ pc = "checking"
          /\ NeedsStream(patterns[pi])
          /\ ~args.main_wordlist
          /\ ~args.skip_missing_main
     /\ (pc = "checking" /\ pc' = "generating") =>
          (args.main_wordlist \/ ~NeedsStream(patterns[pi]))
     /\ pc = "aborted" =>
          /\ pc' = "idle" /\ run' = run + 1
          /\ drawn' = <<>> /\ rounds' = <<>>
          /\ alive_file' = alive_file]_vars

\* the driver is aborted at the second pattern, after a pattern it processed
C14_Witness == pc = "aborted" /\ pi = 2

\* ------------------------------------------------------- the skip policy
\* the candidates of the rounds of this run for pattern number j
RECURSIVE TargetsOf(_, _)
TargetsOf(rs, j) ==
  IF rs = <<>> THEN <<>>
  ELSE (IF Head(rs).pattern = j THEN Head(rs).targets ELSE <<>>)
       \o TargetsOf(Tail(rs), j)

\* the candidates of a pattern up to the cap
CappedCandidates(pattern) ==
  LET c == Candidates(pattern)
  IN IF args.max_per_pattern = 0 THEN c
     ELSE SubSeq(c, 1, Min(args.max_per_pattern, Len(c)))

SkipPolicy == args.skip_missing_main /\ ~args.main_wordlist

\* C15: with the skip policy and no main wordlist, a pattern that needs the
\* main wordlist is passed over without a candidate, a batch or a change
\* of the ledger; every other pattern, before or after it, is expanded up
\* to the cap and dispatched; the run ends in done with all patterns
\* visited and is never aborted.
C15_SkipLeavesOthersProcessed ==
  /\ [](SkipPolicy => pc # "aborted")
  /\ []((SkipPolicy /\ pc = "done") =>
          /\ pi = Len(patterns) + 1
          /\ \A j \in DOMAIN patterns :
               IF NeedsStream(patterns[j])
                 THEN TargetsOf(rounds, j) = <<>>
                 ELSE ToSet(TargetsOf(rounds, j))
                        = ToSet(CappedCandidates(patterns[j])))
  /\ []((SkipPolicy /\ PatternDone) =>
          /\ drawn = CappedCandidates(LastPattern)
          /\ ToSet(drawn) \subseteq ToSet(Flatten(dispatched)))
  /\ [][(SkipPolicy /\ pc = "checking") =>
          IF NeedsStream(patterns[pi])
            THEN /\ pi' = pi + 1
                 /\ pc' \in {"checking", "done"}
                 /\ UNCHANGED <<drawn, dispatched, rounds, gen, batch,
                                alive_file, seen_alive>>
            ELSE pc' = "generating" /\ pi' = pi]_vars

\* a run under the skip policy is done: its first pattern was skipped, its
\* second one resolved
C15_Witness ==
  /\ SkipPolicy /\ pc = "done"
  /\ Len(patterns) = 2
  /\ NeedsStream(patterns[1])
  /\ rounds # <<>> /\ alive_file # <<>>

\* ------------------------------------------- a dry run and a real run
\* main() without --run-dns (lines 330-344): the first run is a dry run, in
\* any resolver environment
InitDry ==
  /\ args \in [batch_size : 1..MaxBatchSize,
               max_per_pattern : 0..MaxCap,
               main_wordlist : BOOLEAN,
               skip_missing_main : BOOLEAN,
               run_dns : {FALSE}]
  /\ args.main_wordlist => ~args.skip_missing_main
  /\ \E ps \in PatternLists, ms \in MainLists, ns \in NumberLists,
        rs \in RegionLists :
       /\ ~args.main_wordlist => ms = <<>>
       /\ files = [patterns |-> FileText(ps), main |-> FileText(ms),
                   number |-> FileText(ns), region |-> FileText(rs)]
  /\ dns \in DnsChoices
  /\ pc = "idle"
  /\ FreshProcess

\* the script has exited and is started again on the same files and in the
\* same resolver environment, with --run-dns given if it was not and left
\* out if it was (lines 330 and 346)
RestartFlipped ==
  /\ pc \in {"done", "aborted"}
  /\ run < MaxRuns
  /\ run' = run + 1
  /\ args' = [args EXCEPT !.run_dns = ~args.run_dns]
  /\ prev' = [log |-> alive_file, dns |-> dns, rounds |-> rounds]
  /\ pc' = "idle"
  /\ number_words' = <<>>
  /\ region_words' = <<>>
  /\ patterns' = <<>>
  /\ seen_alive' = {}
  /\ pi' = 0
  /\ gen' = NewGen
  /\ batch' = <<>>
  /\ processed_for_pattern' = 0
  /\ batch_count' = 0
  /\ drawn' = <<>>
  /\ dispatched' = <<>>
  /\ positives' = {}
  /\ any_failed' = FALSE
  /\ rounds' = <<>>
  /\ UNCHANGED <<files, dns, alive_file, peer_vars, parse_vars, addlast, io>>

NextDry ==
  \/ Start
  \/ CheckSkip
  \/ CheckAbort
  \/ CheckOk
  \/ Draw
  \/ Exhausted
  \/ FlushCap
  \/ FlushFull
  \/ FinalFlush
  \/ FinishPattern
  \/ RestartFlipped

SpecDry == InitDry /\ [][NextDry]_vars

\* the batches of a run: for each round its pattern and its candidates
Batches(rs) == [i \in DOMAIN rs |-> <<rs[i].pattern, rs[i].targets>>]

\* C16: a dry run forms the same batches, in the same order and with the
\* same contents, as a real run on the same inputs, but it never runs
\* massdns and changes neither the log nor the seen set.
C16_DryRunSameBatchesNoLedger ==
  /\ ~args.run_dns =>
       /\ \A i \in DOMAIN rounds : ~rounds[i].massdns
       /\ alive_file = prev.log
       /\ seen_alive \in {{}, LoadSeen(prev.log)}
  /\ run > 1 =>
       /\ IsPrefix(Batches(rounds), Batches(prev.rounds))
       /\ pc \in {"done", "aborted"} =>
            Batches(rounds) = Batches(prev.rounds)

\* a real run that appended to the log has ended with the batches of the
\* dry run before it, some of them full, one of them partial
C16_Witness ==
  /\ run = 2 /\ args.run_dns /\ pc = "done"
  /\ alive_file # prev.log
  /\ Len(rounds) >= 2
  /\ Len(rounds[1].targets) = 2
  /\ Len(rounds[Len(rounds)].targets) = 1

\* ------------------------------------------ the resolution adapter alone
MaxCalls == 2

\* run_massdns_on_targets of xx.py (lines 106-129): raised tells that
\* FileNotFoundError left the function, which has no handler for it
run_massdns_on_targets_xx(targets_list, d) ==
  IF targets_list = <<>>
    THEN [ok |-> TRUE, results |-> <<>>, raised |-> FALSE]
  ELSE IF ~d.installed
    THEN [ok |-> FALSE, results |-> <<>>, raised |-> TRUE]
  ELSE IF \E i \in DOMAIN targets_list : targets_list[i] \in d.crash
    THEN [ok |-> FALSE,
          results |-> MassDnsOutput(BeforeCrash(targets_list, d), d),
          raised |-> FALSE]
  ELSE [ok |-> TRUE, results |-> MassDnsOutput(targets_list, d),
        raised |-> FALSE]

\* the md_targets_ files of one call in xx.py: the file is removed after a
\* successful run only (lines 121-124); line 128 keeps it after a failure
targets_files_xx(targets_list, d) ==
  IF targets_list = <<>> THEN [created |-> 0, left |-> 0]
  ELSE IF run_massdns_on_targets_xx(targets_list, d).ok
    THEN [created |-> 1, left |-> 0]
  ELSE [created |-> 1, left |-> 1]

\* the batches handed to the adapter
AdapterTargets ==
  UNION {[1..n -> {ApiName, DevName, WwwName}] : n \in 0..MaxBatchSize}

InitAdapter ==
  /\ args = [batch_size |-> MaxBatchSize, max_per_pattern |-> 0,
             main_wordlist |-> FALSE, skip_missing_main |-> FALSE,
             run_dns |-> TRUE]
  /\ files = [patterns |-> <<>>, main |-> <<>>, number |-> <<>>,
              region |-> <<>>]
  /\ dns \in DnsChoices
  /\ pc = "adapter"
  /\ FreshProcess

\* one call of run_massdns_on_targets of xx_update.py
Call_xx_update ==
  /\ pc = "adapter"
  /\ Len(rounds) < MaxCalls
  /\ \E t \in AdapterTargets :
       rounds' = Append(rounds,
                        [pattern |-> 0, targets |-> t, massdns |-> TRUE,
                         ok |-> run_massdns_on_targets(t, dns).ok,
                         tmp |-> targets_files(t, dns)])
  /\ UNCHANGED <<config_vars, alive_file, pc, run, number_words,
                 region_words, patterns, seen_alive, pi, gen, batch,
                 processed_for_pattern, batch_count, drawn, dispatched,
                 positives, any_failed, prev, peer_vars, parse_vars, addlast, io>>

\* one call of run_massdns_on_targets of xx.py; the exception it lets
\* through ends the process
Call_xx ==
  /\ pc = "adapter"
  /\ Len(rounds) < MaxCalls
  /\ \E t \in AdapterTargets :
       /\ rounds' = Append(rounds,
                           [pattern |-> 0, targets |-> t, massdns |-> TRUE,
                            ok |-> run_massdns_on_targets_xx(t, dns).ok,
                            tmp |-> targets_files_xx(t, dns)])
       /\ pc' = IF run_massdns_on_targets_xx(t, dns).raised
                  THEN "raised" ELSE "adapter"
  /\ UNCHANGED <<config_vars, alive_file, run, number_words,
                 region_words, patterns, seen_alive, pi, gen, batch,
                 processed_for_pattern, batch_count, drawn, dispatched,
                 positives, any_failed, prev, peer_vars, parse_vars, addlast, io>>

NextAdapter ==
  \/ Call_xx_update
  \/ Call_xx

SpecAdapter == InitAdapter /\ [][NextAdapter]_vars

\* C17: each call of run_massdns_on_targets on a non-empty batch creates one
\* input file and has removed it when the call is over, whether massdns
\* succeeded, exited non-zero or was not found; after any sequence of calls
\* no input file is left.
C17_InputFileCreatedAndRemoved ==
  \A i \in DOMAIN rounds :
    rounds[i].massdns =>
      /\ rounds[i].tmp.created = IF rounds[i].targets = <<>> THEN 0 ELSE 1
      /\ rounds[i].tmp.left = 0

\* ------------------------------------------------------ cap and batches
\* the cap of the pattern is set and as many candidates as it allows are
\* drawn
CapReached ==
  args.max_per_pattern # 0 /\ Len(drawn) >= args.max_per_pattern

\* C19: with a cap K > 0 never more than K candidates are drawn for a
\* pattern; once the K-th is drawn the generator is not advanced again for
\* that pattern; and the batch that holds the K-th candidate, full or not,
\* is flushed.
C19_CapBoundsDrawn ==
  /\ [](args.max_per_pattern # 0 =>
          /\ Len(drawn) <= args.max_per_pattern
          /\ processed_for_pattern <= args.max_per_pattern)
  /\ []((CapReached /\ pc = "draining") =>
          /\ Flatten(dispatched) = drawn
          /\ dispatched[Len(dispatched)] = batch)
  /\ [][(CapReached /\ InPattern) => (gen' = gen /\ drawn' = drawn)]_vars

\* the cap was reached in the middle of a batch, with candidates left in
\* the generator, and the batch was flushed
C19_Witness ==
  /\ CapReached /\ pc = "draining"
  /\ Len(batch) < args.batch_size
  /\ Next_gen.out # <<>>
  /\ dispatched # <<>>

\* batch b is a run of consecutive candidates of drawn, in their order
IsRunOf(b, s) ==
  \E k \in 1..Len(s) : k + Len(b) - 1 <= Len(s)
                         /\ SubSeq(s, k, k + Len(b) - 1) = b

\* C20: every batch handed to a round is non-empty, holds at most
\* batch_size candidates and holds them in the order they were drawn;
\* massdns is never called on an empty batch; when the generator is
\* exhausted the last, shorter batch is dispatched too.
C20_BatchesNonEmptyBoundedOrdered ==
  /\ \A i \in DOMAIN rounds :
       /\ rounds[i].targets # <<>>
       /\ Len(rounds[i].targets) <= args.batch_size
  /\ \A i \in DOMAIN dispatched : IsRunOf(dispatched[i], drawn)
  /\ (pc = "draining" /\ ~CapReached /\ batch # <<>>) =>
       Len(batch) < args.batch_size
  /\ (PatternDone /\ ~CapReached) => Flatten(dispatched) = drawn

\* a pattern is finished without a cap: a full batch and then a shorter
\* last batch were dispatched
C20_Witness ==
  /\ PatternDone /\ args.max_per_pattern = 0
  /\ Len(dispatched) = 2
  /\ Len(dispatched[1]) = args.batch_size
  /\ Len(dispatched[2]) < args.batch_size
  /\ rounds[Len(rounds)].massdns

\* ------------------------------------------------------- addlast.py, main
MaxFuzzLines == 3
LongList == 216

\* a wordlist of LongList entries: three of them multiply to more than
\* MAX_EXPAND
LongWords == [i \in 1..LongList |-> <<ToString(i)>>]

\* lines of a fuzz file: one with all three tokens, one with a single token,
\* a literal name and a comment
LineAll == <<FuzzNumber, "-", FuzzAll, ".", Region, ".", "example.com">>
LineComment == <<"#", " ", "internal">>
FuzzLines == {LineAll, PatRegion, PatLiteral, LineComment}
FuzzFiles == UNION {[1..n -> FuzzLines] : n \in 1..MaxFuzzLines}

\* the wordlist files of WORDLISTS: all long, all short, or short with the
\* file of {fuzz_all} missing
AddlastWordlists ==
  {[number |-> FileText(LongWords), main |-> FileText(LongWords),
    region |-> FileText(LongWords)],
   [number |-> FileText(<<<<"1">>, <<"2">>>>),
    main |-> FileText(<<<<"api">>, <<"dev">>, <<"www">>>>),
    region |-> FileText(<<<<"us">>, <<"eu">>>>)],
   [number |-> FileText(<<<<"1">>, <<"2">>>>), main |-> <<>>,
    region |-> FileText(<<<<"us">>, <<"eu">>>>)]}

OneName == Host("1")
TwoName == Host("2")
OneApiUsName == <<"1", "-", "api", ".", "us", ".", "example.com">>
AddlastZone == {UsName, OneName, ApiName, WwwName, PatLiteral, OneApiUsName}
AddlastDnsChoices ==
  {[installed |-> TRUE, zone |-> AddlastZone, crash |-> {}],
   [installed |-> TRUE, zone |-> AddlastZone, crash |-> {EuName, TwoName}],
   [installed |-> FALSE, zone |-> {}, crash |-> {}]}

\* load_wordlist: the stripped non-blank lines, none for a missing file
load_wordlist(f) ==
  LET kept == SelectSeq(f, LAMBDA l : strip(l) # <<>>)
  IN [i \in DOMAIN kept |-> strip(kept[i])]

\* cached_wordlists[token] once loaded: the file does not change while the
\* process runs, so the cached list is the list of the file
CachedWordlists ==
  <<load_wordlist(files.number), load_wordlist(files.main),
    load_wordlist(files.region)>>

\* the concatenation of the sequences of ss, in order
RECURSIVE Chain(_)
Chain(ss) ==
  IF ss = <<>> THEN <<>>
  ELSE IF Len(ss) = 1 THEN ss[1]
  ELSE LET h == Len(ss) \div 2
       IN Chain(SubSeq(ss, 1, h)) \o Chain(SubSeq(ss, h + 1, Len(ss)))

\* the names of the input file massdns works through before it exits
Worked(input, d) ==
  LET stops == {i \in DOMAIN input : input[i] \in d.crash}
  IN IF stops = {} THEN input
     ELSE SubSeq(input, 1,
                 (CHOOSE i \in stops : \A j \in stops : i <= j) - 1)

\* run_massdns: ok is its return value (the return code is 0 or 1), out the
\* lines of MASSDNS_OUTPUT_TMP (none when massdns is not found)
run_massdns(input, d) ==
  LET worked == Worked(input, d)
  IN [ok |-> d.installed /\ worked = input,
      out |-> IF d.installed
                THEN Chain([i \in DOMAIN worked |-> Answers(worked[i], d)])
                ELSE <<>>]

\* " ".join(parts)
RECURSIVE JoinSpace(_)
JoinSpace(parts) ==
  IF parts = <<>> THEN <<>>
  ELSE IF Len(parts) = 1 THEN Head(parts)
  ELSE Head(parts) \o <<" ">> \o JoinSpace(Tail(parts))

\* lines 128-136: "name rtype rdata" for a line of at least three fields
ParsedLine(out_line) ==
  LET parts == split(strip(out_line))
  IN IF Len(parts) < 3 THEN <<>>
     ELSE <<rstrip(parts[1], Dot) \o <<" ">> \o parts[2] \o <<" ">>
            \o JoinSpace(SubSeq(parts, 3, Len(parts)))>>

\* parse_massdns_simple_output: the parsed lines of the output, in order
parse_massdns_simple_output(out) ==
  Chain([i \in DOMAIN out |-> ParsedLine(out[i])])

\* append_results: ln.rstrip() + "\n" for every line, at the end of the file
append_results(result_lines, result_file) ==
  result_file
  \o [i \in DOMAIN result_lines |->
        rstrip(result_lines[i], Whitespace) \o <<"\n">>]

\* what the loop notes of one line it did not skip
LineRecord(lineno, line, raised, written, massdns, targets, appended) ==
  [lineno |-> lineno, line |-> line, raised |-> raised, written |-> written,
   massdns |-> massdns, targets |-> targets, appended |-> appended]

\* the loop body without its handler of RuntimeError: the exception ends the
\* process and the file of mkstemp stays
FuzzLineStep_Uncaught(st, raw_line, lineno, d) ==
  LET line == strip(raw_line)
      token_lists == TokenLists(line, WordlistTokens, CachedWordlists)
      e == expand_pattern(line, token_lists)
      written == Len(e.out)
      m == run_massdns(e.out, d)
      found == parse_massdns_simple_output(m.out)
  IN IF line = <<>> \/ Head(line) = "#" THEN st
     ELSE IF e.raised
       THEN [st EXCEPT !.pc = "raised",
                       !.tmp_created = @ + 1,
                       !.tmp_left = @ + 1,
                       !.lines = Append(@, LineRecord(lineno, line, TRUE, 0,
                                                      FALSE, <<>>, 0))]
     ELSE IF written = 0
       THEN [st EXCEPT !.tmp_created = @ + 1,
                       !.lines = Append(@, LineRecord(lineno, line, FALSE, 0,
                                                      FALSE, <<>>, 0))]
     ELSE [st EXCEPT !.tmp_created = @ + 1,
                     !.result_file = IF found # <<>>
                                       THEN append_results(found, @) ELSE @,
                     !.lines = Append(@, LineRecord(lineno, line, FALSE,
                                                    written, TRUE, e.out,
                                                    Len(found)))]

\* the body of the loop of main for one line of the fuzz file, lines 164-232.
\* Every branch that made the file of mkstemp removes it (lines 191, 201,
\* 227), so tmp_left stays as it was.
FuzzLineStep(st, raw_line, lineno, d) ==
  LET line == strip(raw_line)
      token_lists == TokenLists(line, WordlistTokens, CachedWordlists)
      e == expand_pattern(line, token_lists)
      written == Len(e.out)
      m == run_massdns(e.out, d)
      found == parse_massdns_simple_output(m.out)
  IN IF line = <<>> \/ Head(line) = "#" THEN st
     ELSE IF e.raised
       THEN [st EXCEPT !.tmp_created = @ + 1,
                       !.lines = Append(@, LineRecord(lineno, line, TRUE, 0,
                                                      FALSE, <<>>, 0))]
     ELSE IF written = 0
       THEN [st EXCEPT !.tmp_created = @ + 1,
                       !.lines = Append(@, LineRecord(lineno, line, FALSE, 0,
                                                      FALSE, <<>>, 0))]
     ELSE [st EXCEPT !.tmp_created = @ + 1,
                     !.result_file = IF found # <<>>
                                       THEN append_results(found, @) ELSE @,
                     !.lines = Append(@, LineRecord(lineno, line, FALSE,
                                                    written, TRUE, e.out,
                                                    Len(found)))]

\* main up to the loop, lines 148-160: the fuzz file exists and the resolvers
\* were downloaded
AddlastStart ==
  /\ addlast.pc = "idle"
  /\ addlast' = [addlast EXCEPT !.pc = "reading", !.lineno = 1]
  /\ UNCHANGED <<config_vars, alive_file, driver_vars, peer_vars, parse_vars,
                 io>>

\* one iteration of the loop over the fuzz file
FuzzLine ==
  /\ addlast.pc = "reading"
  /\ addlast.lineno <= Len(files.patterns)
  /\ addlast' = [FuzzLineStep(addlast, files.patterns[addlast.lineno],
                              addlast.lineno, dns)
                   EXCEPT !.lineno = @ + 1]
  /\ UNCHANGED <<config_vars, alive_file, driver_vars, peer_vars, parse_vars,
                 io>>

\* line 234: the file is read through
AllLinesProcessed ==
  /\ addlast.pc = "reading"
  /\ addlast.lineno > Len(files.patterns)
  /\ addlast' = [addlast EXCEPT !.pc = "done"]
  /\ UNCHANGED <<config_vars, alive_file, driver_vars, peer_vars, parse_vars,
                 io>>

InitAddlast ==
  /\ args = [batch_size |-> MaxBatchSize, max_per_pattern |-> 0,
             main_wordlist |-> FALSE, skip_missing_main |-> FALSE,
             run_dns |-> TRUE]
  /\ \E ls \in FuzzFiles, ws \in AddlastWordlists :
       files = [patterns |-> FileText(ls), main |-> ws.main,
                number |-> ws.number, region |-> ws.region]
  /\ dns \in AddlastDnsChoices
  /\ pc = "addlast"
  /\ FreshProcess

NextAddlast == AddlastStart \/ FuzzLine \/ AllLinesProcessed

SpecAddlast == InitAddlast /\ [][NextAddlast]_vars

\* the size of the product of a line: the lists of its tokens multiplied
SizeOf(line, token, f) ==
  IF Contains(line, token) THEN Len(load_wordlist(f)) ELSE 1

Oversized(line) ==
  SizeOf(line, FuzzNumber, files.number) * SizeOf(line, FuzzAll, files.main)
    * SizeOf(line, Region, files.region) > MAX_EXPAND

\* the loop of main over the given lines, from the state st
RECURSIVE RunLines(_, _, _)
RunLines(st, raw_lines, d) ==
  IF raw_lines = <<>> THEN st
  ELSE RunLines(FuzzLineStep(st, Head(raw_lines), 0, d), Tail(raw_lines), d)

\* the lines of the fuzz file the loop is through with
LinesRead == SubSeq(files.patterns, 1, addlast.lineno - 1)

\* the same lines with the oversized ones taken out of the file
WithoutOversized(raw_lines) ==
  SelectSeq(raw_lines, LAMBDA l : ~Oversized(strip(l)))

\* what the loop did for the lines that are not oversized, line numbers aside
Work(recs) ==
  LET kept == SelectSeq(recs, LAMBDA r : ~Oversized(r.line))
  IN [i \in DOMAIN kept |-> [kept[i] EXCEPT !.lineno = 0]]

\* C18: a line of the fuzz file whose product exceeds MAX_EXPAND yields no
\* candidate, no massdns run and no appended result line, its file of mkstemp
\* is removed, and the result file and the work done for the other lines are
\* those of the same file without the oversized lines.
C18_OversizedPatternIsSkippedAlone ==
  addlast.pc # "idle" =>
    LET ref == RunLines(AddlastIdle, WithoutOversized(LinesRead), dns)
    IN /\ \A i \in DOMAIN addlast.lines :
            Oversized(addlast.lines[i].line) =>
              /\ addlast.lines[i].raised
              /\ addlast.lines[i].written = 0
              /\ ~addlast.lines[i].massdns
              /\ addlast.lines[i].appended = 0
       /\ addlast.tmp_left = 0
       /\ addlast.pc \in {"reading", "done"}
       /\ addlast.result_file = ref.result_file
       /\ Work(addlast.lines) = ref.lines

\* the loop is through a file in which an oversized line stands before a
\* line that made massdns run and append a result
C18_Witness ==
  /\ addlast.pc = "done"
  /\ \E i, j \in DOMAIN addlast.lines :
       /\ i < j
       /\ Oversized(addlast.lines[i].line)
       /\ addlast.lines[j].appended > 0

\* ------------------------------------------- the steps of one batch round
\* the lines of tmp_results of the current batch, none when the file does
\* not exist (line 157-159)
ResultsOf(fs, name) ==
  IF \E f \in fs : f.name = name
    THEN (CHOOSE f \in fs : f.name = name).lines
    ELSE <<>>

\* BeginRound that does not wait for massdns: the driver goes on to the
\* removal of tmp_results while the process is running
BeginRound_NoWait ==
  /\ pc \in {"flush_cap", "flush_full", "draining"}
  /\ batch # <<>>
  /\ batch_count' = batch_count + 1
  /\ dispatched' = Append(dispatched, batch)
  /\ io' = IF args.run_dns
             THEN [io EXCEPT !.after = pc, !.ok = FALSE, !.alive = <<>>,
                             !.targets = @ + 1,
                             !.outstanding =
                               IF dns.installed THEN @ + 1 ELSE @]
             ELSE [io EXCEPT !.after = pc, !.ok = FALSE, !.alive = <<>>]
  /\ pc' = "removing"
  /\ UNCHANGED <<config_vars, alive_file, run, number_words, region_words,
                 patterns, seen_alive, pi, gen, batch, processed_for_pattern,
                 drawn, positives, any_failed, prev, rounds, peer_vars,
                 parse_vars, addlast>>

\* lines 232-239, 251-256, 268-273: batch_count += 1, and with run_dns the
\* call of run_massdns_on_targets up to subprocess.run: the targets file is
\* written and massdns is started, if the binary is there
BeginRound ==
  /\ pc \in {"flush_cap", "flush_full", "draining"}
  /\ batch # <<>>
  /\ batch_count' = batch_count + 1
  /\ dispatched' = Append(dispatched, batch)
  /\ io' = IF args.run_dns
             THEN [io EXCEPT !.after = pc, !.ok = FALSE, !.alive = <<>>,
                             !.targets = @ + 1,
                             !.outstanding =
                               IF dns.installed THEN @ + 1 ELSE @]
             ELSE [io EXCEPT !.after = pc, !.ok = FALSE, !.alive = <<>>]
  /\ pc' = IF args.run_dns THEN "resolving" ELSE "removing"
  /\ UNCHANGED <<config_vars, alive_file, run, number_words, region_words,
                 patterns, seen_alive, pi, gen, batch, processed_for_pattern,
                 drawn, positives, any_failed, prev, rounds, peer_vars,
                 parse_vars, addlast>>

\* lines 137-156: subprocess.run returns or raises, the targets file is
\* removed, run_massdns_on_targets returns
MassdnsReturns ==
  /\ pc = "resolving"
  /\ LET r == run_massdns_on_targets(batch, dns)
         t == targets_files(batch, dns)
     IN /\ io' = [io EXCEPT
                    !.outstanding = IF dns.installed THEN @ - 1 ELSE @,
                    !.targets = @ - 1 + t.left,
                    !.ok = r.ok,
                    !.results =
                      IF dns.installed
                        THEN {f \in @ : f.name # batch_count}
                             \cup {[name |-> batch_count,
                                    lines |-> r.results]}
                        ELSE @]
        /\ any_failed' = (any_failed \/ ~r.ok)
        /\ pc' = IF r.ok THEN "extracting" ELSE "removing"
  /\ UNCHANGED <<config_vars, alive_file, run, number_words, region_words,
                 patterns, seen_alive, pi, gen, batch, processed_for_pattern,
                 batch_count, drawn, dispatched, positives, prev, rounds,
                 peer_vars, parse_vars, addlast>>

\* lines 240, 257, 274: alive = parse_massdns_results_for_alive(tmp_results)
Extract ==
  /\ pc = "extracting"
  /\ io' = [io EXCEPT !.alive = parse_massdns_results_for_alive(
                                  ResultsOf(io.results, batch_count))]
  /\ pc' = "appending"
  /\ UNCHANGED <<config_vars, alive_file, run, number_words, region_words,
                 patterns, seen_alive, pi, gen, batch, processed_for_pattern,
                 batch_count, drawn, dispatched, positives, any_failed, prev,
                 rounds, peer_vars, parse_vars, addlast>>

\* lines 241, 258, 275: append_alive(alive, seen_alive) returns
AppendAlive ==
  /\ pc = "appending"
  /\ LET r == append_alive(io.alive, seen_alive, alive_file)
     IN /\ alive_file' = r.file
        /\ seen_alive' = r.seen
  /\ positives' = positives \cup (ToSet(batch) \cap dns.zone)
  /\ pc' = "removing"
  /\ UNCHANGED <<config_vars, run, number_words, region_words, patterns, pi,
                 gen, batch, processed_for_pattern, batch_count, drawn,
                 dispatched, any_failed, prev, rounds, peer_vars, parse_vars,
                 addlast, io>>

\* AppendFails with the error caught around append_alive: the round goes on
\* to the removal of tmp_results
AppendFails_Swallowed ==
  /\ pc = "appending"
  /\ io.alive # <<>>
  /\ \E k \in 0..(Len(io.alive) - 1) :
       LET r == append_alive(SubSeq(io.alive, 1, k), seen_alive, alive_file)
       IN /\ alive_file' = r.file
          /\ seen_alive' = r.seen
  /\ io' = [io EXCEPT !.raised = TRUE]
  /\ pc' = "removing"
  /\ UNCHANGED <<config_vars, run, number_words, region_words, patterns, pi,
                 gen, batch, processed_for_pattern, batch_count, drawn,
                 dispatched, positives, any_failed, prev, rounds, peer_vars,
                 parse_vars, addlast>>

\* lines 176-179: open or write raises OSError after k names were handled;
\* neither append_alive nor process_patterns_stream nor main catches it
AppendFails ==
  /\ pc = "appending"
  /\ io.alive # <<>>
  /\ \E k \in 0..(Len(io.alive) - 1) :
       LET r == append_alive(SubSeq(io.alive, 1, k), seen_alive, alive_file)
       IN /\ alive_file' = r.file
          /\ seen_alive' = r.seen
  /\ io' = [io EXCEPT !.raised = TRUE]
  /\ pc' = "crashed"
  /\ UNCHANGED <<config_vars, run, number_words, region_words, patterns, pi,
                 gen, batch, processed_for_pattern, batch_count, drawn,
                 dispatched, positives, any_failed, prev, rounds, peer_vars,
                 parse_vars, addlast>>

\* RemoveResults without the os.remove: tmp_results stays in OUTPUT_DIR
RemoveResults_Keep ==
  /\ pc = "removing"
  /\ io' = [io EXCEPT !.alive = <<>>, !.after = "none"]
  /\ rounds' = Append(rounds,
                      [pattern |-> pi, targets |-> batch,
                       massdns |-> args.run_dns,
                       ok |-> args.run_dns /\ io.ok,
                       tmp |-> IF args.run_dns
                                 THEN targets_files(batch, dns)
                                 ELSE [created |-> 0, left |-> 0]])
  /\ CASE io.after = "flush_cap" ->
            /\ pc' = "draining"
            /\ UNCHANGED <<batch, pi>>
       [] io.after = "flush_full" ->
            /\ pc' = "generating"
            /\ batch' = <<>>
            /\ UNCHANGED pi
       [] OTHER ->
            /\ NextPattern
            /\ UNCHANGED batch
  /\ UNCHANGED <<config_vars, alive_file, run, number_words, region_words,
                 patterns, seen_alive, gen, processed_for_pattern,
                 batch_count, drawn, dispatched, positives, any_failed, prev,
                 peer_vars, parse_vars, addlast>>

\* lines 244-249, 261-265, 278-283: os.remove(tmp_results), then the break,
\* batch = [] or the end of the pattern
RemoveResults ==
  /\ pc = "removing"
  /\ io' = [io EXCEPT !.results = {f \in @ : f.name # batch_count},
                      !.alive = <<>>, !.after = "none"]
  /\ rounds' = Append(rounds,
                      [pattern |-> pi, targets |-> batch,
                       massdns |-> args.run_dns,
                       ok |-> args.run_dns /\ io.ok,
                       tmp |-> IF args.run_dns
                                 THEN targets_files(batch, dns)
                                 ELSE [created |-> 0, left |-> 0]])
  /\ CASE io.after = "flush_cap" ->
            /\ pc' = "draining"
            /\ UNCHANGED <<batch, pi>>
       [] io.after = "flush_full" ->
            /\ pc' = "generating"
            /\ batch' = <<>>
            /\ UNCHANGED pi
       [] OTHER ->
            /\ NextPattern
            /\ UNCHANGED batch
  /\ UNCHANGED <<config_vars, alive_file, run, number_words, region_words,
                 patterns, seen_alive, gen, processed_for_pattern,
                 batch_count, drawn, dispatched, positives, any_failed, prev,
                 peer_vars, parse_vars, addlast>>

NextSteps ==
  \/ Start
  \/ CheckSkip
  \/ CheckAbort
  \/ CheckOk
  \/ Draw
  \/ Exhausted
  \/ FinishPattern
  \/ BeginRound
  \/ MassdnsReturns
  \/ Extract
  \/ AppendAlive
  \/ AppendFails
  \/ RemoveResults

SpecSteps == Init /\ [][NextSteps]_vars

\* the driver is between rounds: no massdns process is running, no file of
\* a round is left in OUTPUT_DIR
InRound == pc \in {"resolving", "extracting", "appending", "removing"}
RoundIdle ==
  /\ ~InRound
  /\ io.outstanding = 0
  /\ io.results = {}
  /\ io.targets = 0
  /\ io.after = "none"

\* the order of the steps of a round
RoundOrder ==
  /\ pc = "resolving" => pc' \in {"extracting", "removing"}
  /\ pc = "extracting" => pc' = "appending"
  /\ pc = "appending" => pc' \in {"removing", "crashed"}
  /\ pc = "removing" =>
       pc' \in {"draining", "generating", "checking", "done"}
  /\ pc' = "extracting" => io'.ok /\ io'.outstanding = 0
  /\ pc' = "removing" => io'.outstanding = 0

\* C21: processing is sequential.  At most one massdns process is running at
\* any time; a candidate is drawn and a batch is dispatched only between
\* rounds, when the massdns call, the extraction, the append to the log and
\* the removal of tmp_results of the round before are all done; the steps of
\* a round come in that order; and the patterns are taken one after another
\* in the order of the file.
C21_StrictlySequential ==
  /\ [](io.outstanding <= 1)
  /\ [](\A i, j \in DOMAIN rounds :
          i < j => rounds[i].pattern <= rounds[j].pattern)
  /\ [][/\ RoundOrder
        /\ InRound =>
             /\ gen' = gen
             /\ drawn' = drawn
             /\ batch_count' = batch_count
        /\ gen' # gen => RoundIdle
        /\ batch_count' = batch_count + 1 =>
             /\ RoundIdle
             /\ pc \in {"flush_cap", "flush_full", "draining"}
        /\ alive_file' # alive_file => pc = "appending" /\ io.outstanding = 0
        /\ pi' # pi =>
             /\ pi' = pi + 1
             /\ ~InRound'
             /\ io'.outstanding = 0 /\ io'.results = {} /\ io'.targets = 0
        /\ pc # "idle" => patterns' = patterns
        /\ pc = "idle" => patterns' = read_small_list(files.patterns)]_vars

\* the second round of a run is being resolved after a first round that went
\* through extraction and append
C21_Witness ==
  /\ pc = "resolving"
  /\ io.outstanding = 1
  /\ Len(rounds) = 1
  /\ rounds[1].ok
  /\ alive_file # <<>>

\* the tmp_results file of the current batch, as massdns leaves it
OwnResults ==
  {[name |-> batch_count,
    lines |-> run_massdns_on_targets(batch, dns).results]}

\* C22: after every round, whether massdns succeeded, failed or was not run,
\* the tmp_results file of the batch is gone: outside a round no tmp_results
\* file exists, so none is left when a pattern finishes; and the extraction
\* of a round finds the file of its own batch and no other, and reads the
\* records massdns wrote for this batch.
C22_OutputArtifactRemoved ==
  /\ []((~InRound /\ pc # "crashed") => io.results = {})
  /\ [][/\ pc = "removing" => io'.results = {}
        /\ pc = "extracting" =>
             /\ io.results = OwnResults
             /\ io'.alive = parse_massdns_results_for_alive(
                              MassDnsOutput(batch, dns))]_vars

\* a run has finished in which massdns failed on a batch after it had
\* written records for it, and a later round went through
C22_Witness ==
  /\ pc = "done"
  /\ dns.installed
  /\ io.results = {}
  /\ \E i, j \in DOMAIN rounds :
       /\ i < j
       /\ rounds[i].massdns /\ ~rounds[i].ok
       /\ MassDnsOutput(BeforeCrash(rounds[i].targets, dns), dns) # <<>>
       /\ rounds[j].ok

\* C24: an error raised while appending to the log ends the run.  It is not
\* caught by append_alive or process_patterns_stream: once it was raised the
\* driver is dead, and from then on no batch is dispatched, no massdns is
\* started, no pattern is taken up and the log is not written again.
C24_LedgerWriteErrorIsFatal ==
  /\ [](io.raised => pc = "crashed")
  /\ [][io.raised =>
          /\ pc' = "crashed"
          /\ UNCHANGED <<batch_count, dispatched, rounds, pi, gen, drawn,
                         alive_file, seen_alive, io>>]_vars
  /\ [][pc' = "crashed" => pc = "appending" /\ io'.raised]_vars

\* the append of a round failed while batches and patterns were still to come
C24_Witness ==
  /\ pc = "crashed"
  /\ io.raised
  /\ pi < Len(patterns)
  /\ GenNext(patterns[pi], args.main_wordlist, files.main, number_words,
             region_words, gen).out # <<>>

\* the lines of the log without their newline
LogLines(f) == {rstrip(f[i], {"\n"}) : i \in DOMAIN f}

\* C23: the ledger only grows.  Every step leaves the log it found as a
\* prefix of the log it leaves, so no line is removed or rewritten; within a
\* run the seen set only gains names; and from its loading on the seen set
\* is the set of the lines of the log.
C23_LedgerOnlyGrows ==
  /\ [](pc # "idle" => seen_alive = LogLines(alive_file))
  /\ [][/\ IsPrefix(alive_file, alive_file')
        /\ run' = run => seen_alive \subseteq seen_alive'
        /\ alive_file' # alive_file =>
             /\ seen_alive' # seen_alive
             /\ Cardinality(seen_alive') - Cardinality(seen_alive)
                  = Len(alive_file') - Len(alive_file)]_vars

\* a run that loaded a log with names in it has appended a name to it
C23_Witness ==
  /\ run = 2
  /\ prev.log # <<>>
  /\ Len(alive_file) > Len(prev.log)
  /\ pc = "done"

\* ------------------------------------------- the generator on its own
\* patterns with {number} and {region} in either order of occurrence, with
\* and without a streamed placeholder, and patterns with more than one
\* streamed placeholder
PatNumberRegion == <<Number, ".", Region, ".", "example.com">>
PatRegionNumber == <<Region, "-", Number, ".", "example.com">>
PatFuzzRegionNumber == <<Fuzz, ".", Region, ".", Number, ".", "example.com">>
PatFuzzAllFuzz == <<FuzzAll, "-", Fuzz, ".", "example.com">>
PatFuzzFuzzNumber ==
  <<Fuzz, ".", FuzzNumber, ".", Number, ".", "example.com">>
ExpandPatterns ==
  {PatNumberRegion, PatRegionNumber, PatFuzzRegionNumber, PatFuzzAllFuzz,
   PatFuzzFuzzNumber, PatMain}

\* wordlists of plain words, and wordlists in which a word is the text of a
\* placeholder
ExpandMainLists ==
  {<<<<"api">>, <<"dev">>, <<"www">>>>, <<<<"api">>, <<Region>>>>}
ExpandNumberLists == {<<<<"1">>, <<"2">>>>, <<<<"1">>>>}
ExpandRegionLists == {<<<<"us">>, <<"eu">>>>, <<<<"us">>, <<Number>>>>}

\* a dry run over a patterns file of one pattern
InitExpand ==
  /\ args = [batch_size |-> MaxBatchSize, max_per_pattern |-> 0,
             main_wordlist |-> TRUE, skip_missing_main |-> FALSE,
             run_dns |-> FALSE]
  /\ \E pat \in ExpandPatterns, ms \in ExpandMainLists,
        ns \in ExpandNumberLists, rs \in ExpandRegionLists :
       files = [patterns |-> FileText(<<pat>>), main |-> FileText(ms),
                number |-> FileText(ns), region |-> FileText(rs)]
  /\ dns = [installed |-> FALSE, zone |-> {}, crash |-> {}]
  /\ pc = "idle"
  /\ FreshProcess

NextExpand ==
  \/ Start
  \/ CheckOk
  \/ Draw
  \/ Exhausted
  \/ FlushFull
  \/ FinalFlush
  \/ FinishPattern
  \/ Restart

SpecExpand == InitExpand /\ [][NextExpand]_vars

Placeholders == {FuzzAll, Fuzz, FuzzNumber, Number, Region}

\* C25: no candidate drawn from the generator contains a placeholder.
C25_CandidatesFullySubstituted ==
  \A i \in DOMAIN drawn : \A k \in DOMAIN drawn[i] :
    drawn[i][k] \notin Placeholders

\* the words of the stream: the stripped non-blank lines of the main file
StreamWords == load_wordlist(files.main)

\* the base strings the stream gives for a pattern, the pattern itself when
\* it has no streamed placeholder
Bases(pattern) ==
  IF pattern_needs_main(pattern)
    THEN [i \in DOMAIN StreamWords |-> MainBase(pattern, StreamWords[i])]
    ELSE <<pattern>>

\* the candidate at position i when the stream runs outermost, the number
\* list next and the region list innermost
CanonicalAt(pattern, i) ==
  LET m == Len(number_words)
      r == Len(region_words)
      base == Bases(pattern)[((i - 1) \div (m * r)) + 1]
      n == number_words[(((i - 1) \div r) % m) + 1]
      g == region_words[((i - 1) % r) + 1]
  IN replace(replace(base, Number, n), Region, g)

CanonicalCount(pattern) ==
  Len(Bases(pattern)) * Len(number_words) * Len(region_words)

HasNumberAndRegion(pattern) ==
  Contains(pattern, Number) /\ Contains(pattern, Region)

\* C26: for a pattern with {number} and {region}, wherever they stand in it,
\* the candidates come with the stream outermost, the number list next and
\* the region list innermost: the i-th candidate drawn is the i-th of that
\* order, in every run, and when the generator is exhausted there are
\* N x M x R of them.
C26_CanonicalExpansionOrder ==
  (pc \in {"generating", "flush_full", "draining"}
   /\ HasNumberAndRegion(patterns[pi])) =>
    /\ Len(drawn) <= CanonicalCount(patterns[pi])
    /\ \A i \in DOMAIN drawn : drawn[i] = CanonicalAt(patterns[pi], i)
    /\ pc = "draining" => Len(drawn) = CanonicalCount(patterns[pi])

\* the second run has exhausted the generator of a pattern in which {region}
\* stands before {number} and a streamed placeholder before both
C26_Witness ==
  /\ run = 2
  /\ pc = "draining"
  /\ patterns[pi] = PatFuzzRegionNumber
  /\ Len(drawn) > Len(StreamWords) * Len(number_words)
  /\ Len(number_words) > 1

Bulk == {FuzzAll, Fuzz, FuzzNumber}

BulkCount(pattern) ==
  Cardinality({x \in Bulk : Contains(pattern, x)})

\* the pattern with the one word w in the place of every bulk placeholder
SameWord(pattern, w) ==
  Chain([i \in DOMAIN pattern |->
           IF pattern[i] \in Bulk THEN w ELSE <<pattern[i]>>])

\* per word of the stream, the in-memory product over the base with that
\* word in every bulk placeholder
SameWordYields(pattern) ==
  Chain([i \in DOMAIN StreamWords |->
           InnerYields(pattern, SameWord(pattern, StreamWords[i]),
                       number_words, region_words,
                       <<SameWord(pattern, StreamWords[i])>>)])

InnerCount(pattern) ==
  (IF Contains(pattern, Number) THEN Len(number_words) ELSE 1)
  * (IF Contains(pattern, Region) THEN Len(region_words) ELSE 1)

\* C27: a pattern with more than one of {fuzz_all}, {fuzz}, {fuzz_number}
\* gets the same streamed word in all of them: its candidates are, word by
\* word, the in-memory product over the pattern with that word in every bulk
\* placeholder, N x (in-memory product) in all, and the main wordlist is
\* opened once and read forward once.
C27_BulkPlaceholdersShareWord ==
  /\ []((pc \in {"generating", "flush_full", "draining"}
         /\ BulkCount(patterns[pi]) > 1) =>
          /\ IsPrefix(drawn, SameWordYields(patterns[pi]))
          /\ gen.opens <= 1
          /\ pc = "draining" =>
               /\ drawn = SameWordYields(patterns[pi])
               /\ Len(drawn) = Len(StreamWords) * InnerCount(patterns[pi])
               /\ gen.opens = 1
               /\ gen.pos = Len(files.main))
  /\ [][(pc = "generating" /\ BulkCount(patterns[pi]) > 1) =>
          /\ gen'.pos >= gen.pos
          /\ gen'.opens >= gen.opens]_vars

\* the generator of a pattern with two bulk placeholders and {number} is
\* exhausted after more candidates than the stream has words
C27_Witness ==
  /\ pc = "draining"
  /\ patterns[pi] = PatFuzzFuzzNumber
  /\ Len(StreamWords) > 1
  /\ Len(drawn) > Len(StreamWords)

\* ------------------------------------------------ batch state per pattern
\* C28: the batch, the candidate counter and the batch counter start afresh
\* with every pattern; every batch handed to a round is a run of candidates
\* drawn for the pattern of that round and of no other; and whatever cap was
\* reached on the patterns before, a pattern is drawn up to the cap or to
\* the end of its own candidates.
C28_BatchStateIsPatternLocal ==
  /\ (pc = "generating" /\ drawn = <<>>) =>
       /\ batch = <<>>
       /\ processed_for_pattern = 0
       /\ batch_count = 0
  /\ pc \in {"generating", "flush_cap", "flush_full", "draining"} =>
       /\ processed_for_pattern = Len(drawn)
       /\ batch_count = Len(dispatched)
       /\ IsRunOf(batch, drawn) \/ batch = <<>>
       /\ TargetsOf(rounds, pi) = Flatten(dispatched)
       /\ \A i \in DOMAIN dispatched : IsRunOf(dispatched[i], drawn)
       /\ pc = "draining" => drawn = CappedCandidates(patterns[pi])
  /\ \A i \in DOMAIN rounds : rounds[i].pattern <= pi
  /\ (pc \in {"checking", "done"} /\ pi > 1) =>
       ToSet(TargetsOf(rounds, pi - 1)) =
         IF pattern_needs_main(patterns[pi - 1]) /\ ~args.main_wordlist
         THEN {}
         ELSE ToSet(CappedCandidates(patterns[pi - 1]))

\* the second pattern was drawn up to the cap after the cap had cut the
\* first pattern short
C28_Witness ==
  /\ pc = "draining" /\ pi = 2
  /\ args.max_per_pattern > 0
  /\ Len(drawn) = args.max_per_pattern
  /\ Len(Candidates(patterns[1])) > args.max_per_pattern
  /\ \E i \in DOMAIN rounds : rounds[i].pattern = 1
  /\ patterns[1] # patterns[2]

\* ------------------------------------------------------------ termination
\* the steps of the driver when no write to the log fails
NextLive ==
  \/ Start
  \/ CheckSkip
  \/ CheckAbort
  \/ CheckOk
  \/ Draw
  \/ Exhausted
  \/ FinishPattern
  \/ BeginRound
  \/ MassdnsReturns
  \/ Extract
  \/ AppendAlive
  \/ RemoveResults

\* the driver has left the loop over the patterns (line 283) or has called
\* sys.exit(2) (line 221)
Final == pc \in {"done", "aborted"}

\* the interpreter keeps running the driver and massdns, once started,
\* returns: weak fairness of NextLive, which is enabled in every state that
\* is not final, so that its enabling condition is written as ~Final
Fairness == []<>Final \/ []<><<NextLive>>_vars

SpecLive == Init /\ [][NextLive]_vars /\ Fairness

\* C29: the driver ends in done or aborted.  On the way the loop over the
\* patterns only moves forward, one pattern at a time, so no pattern is
\* taken up twice; a pattern that was not skipped is left only when its
\* candidates were drawn up to the cap and every drawn candidate was handed
\* to a round; and a run that is done has gone through all patterns.
C29_DriverTerminates ==
  /\ <>Final
  /\ [](pc = "done" => pi = Len(patterns) + 1)
  /\ [](pc = "aborted" => \A i \in DOMAIN rounds : rounds[i].pattern < pi)
  /\ [][/\ pi' # pi => (pi' = pi + 1 /\ pc' \in {"checking", "done"})
        /\ (pc # "idle" /\ pc' = "checking") => pi' = pi + 1
        /\ Final => pc' = pc
        /\ (pi' # pi /\ pc \in {"draining", "removing"}) =>
             /\ drawn = CappedCandidates(patterns[pi])
             /\ ToSet(Flatten(dispatched')) = ToSet(drawn)
        /\ (pc = "checking" /\ pc' = "generating") =>
             \A i \in DOMAIN rounds : rounds[i].pattern < pi]_vars

\* a run over two patterns is done after rounds for both of them
C29_Witness ==
  /\ pc = "done"
  /\ Len(patterns) = 2
  /\ \E i, j \in DOMAIN rounds : rounds[i].pattern = 1 /\ rounds[j].pattern = 2
====
